---- MODULE Spec2Model ----
(***************************************************************************)
(* Full-text-search kernel of QLever: src/src/index/FTSAlgorithms.cpp.     *)
(*                                                                         *)
(* Several state machines share this module, each with its own             *)
(* specification:                                                          *)
(*   SpecCI    FTSAlgorithms::crossIntersect                               *)
(*   SpecKWay  FTSAlgorithms::crossIntersectKWay                           *)
(*   SpecAgg   FTSAlgorithms::aggScoresAndTakeTopKContexts(wep) and its    *)
(*             k = 1 fast path aggScoresAndTakeTopContext(wep)             *)
(*   SpecMultVars            multVarsAggScoresAndTakeTopKContexts, k = 1   *)
(*   SpecOneVarFilter        oneVarFilterAggScoresAndTakeTopKContexts and  *)
(*                           aggScoresAndTakeTopKContexts(cids, eids, ..)  *)
(*   SpecMultVarsFilter      multVarsFilterAggScoresAndTakeTopKContexts    *)
(*   SpecRowAgg              aggScoresAndTakeTopKContexts(rows, k, res)    *)
(*   SpecFilterByRange       filterByRange                                 *)
(*   SpecAppendCrossProduct  appendCrossProduct(subRes1, subRes2)          *)
(*   SpecAppendCrossProductMaps  appendCrossProduct(subResMaps)            *)
(*   SpecAggOnTable          the aggregator on a table that holds rows     *)
(*   SpecCallEntry           the checks the functions make at their entry  *)
(*   SpecKWayFair            crossIntersectKWay run to its end             *)
(*   SpecMultVarsFilterSet   the fSet variant of the filter aggregator     *)
(*   SpecIntersectTwo        intersectTwoPostingLists                      *)
(*   SpecCancellationHandle  ad_utility::CancellationHandle                *)
(* A machine that a specification does not run keeps its idle state.       *)
(* Vectors are sequences; a C++ index x is the sequence index x + 1.       *)
(***************************************************************************)
EXTENDS Integers, Sequences, FiniteSets

\* Longest posting list that Init draws.
MaxLen == 3
\* Largest number of lists handed to crossIntersectKWay, and the largest
\* number of postings that these lists hold together.
MaxLists == 3
MaxPostings == 6
\* Largest k (contexts per entity) handed to the aggregator.
MaxK == 2

\* TextRecordIndex values of the inputs.
ContextIds == {0, 1, 2}
\* Entity ids, scores and word ids of the aggregator's inputs.
EntityIds == {1, 2}
Scores == {1, 2}
WordIds == {1, 2}
\* What a read past the end of a vector can yield besides a valid value.
Garbage == {99}
\* The numbers of variables handed to the multi-variable aggregators.
NofVarsValues == {1, 2}

VARIABLES
  \* ---- crossIntersect
  matchingContextsWep,  \* left input  [cids, wids]
  eBlockWep,            \* right input [cids, eids, scores]
  ciResult,             \* resultWep   [wids, cids, eids, scores]
  ciI, ciJ, ciK,        \* the cursors i, j and the run offset k
  ciOutOfRange,         \* TRUE once a read used an index >= size()
  ciPc,
  \* ---- crossIntersectKWay
  wepVecs,              \* the k input lists, each [cids, scores, wids]
  lastListEids,         \* the entity column, or NoEids for nullptr
  kwResult,             \* resultWep   [cids, eids, scores, wids]
  nextIndices, currentContext, currentList, streak, n,
  kwPc,
  \* ---- aggScoresAndTakeTopKContexts / aggScoresAndTakeTopContext
  wep,                  \* input postings [cids, eids, scores, wids]
  kArg,                 \* the parameter k
  aggI,                 \* loop index i
  map,                  \* AggMap of the k > 1 path: eid -> [first, second]
  topMap,               \* AggMap of the k = 1 path: eid -> [first, second]
  iterated,             \* keys of map the output loop has visited
  dynResult,            \* the caller's output table, a sequence of rows
  aggPc

ciVars == <<matchingContextsWep, eBlockWep, ciResult, ciI, ciJ, ciK,
            ciOutOfRange, ciPc>>
kwVars == <<wepVecs, lastListEids, kwResult, nextIndices, currentContext,
            currentList, streak, n, kwPc>>
aggVars == <<wep, kArg, aggI, map, topMap, iterated, dynResult, aggPc>>
VARIABLES
  \* ---- multVarsAggScoresAndTakeTopKContexts, kLimit = 1
  mvWep,                \* input postings [cids, eids, scores]
  nofVars,              \* the parameter nofVars
  mvI,                  \* loop index i
  entitiesInContext, currentCid, cscore,
  mvMap,                \* AggMap: key -> [first, second = <<cid, score>>]
  mvResult,             \* the caller's output table
  mvPc

mvVars == <<mvWep, nofVars, mvI, entitiesInContext, currentCid, cscore,
            mvMap, mvResult, mvPc>>

VARIABLES
  \* ---- oneVarFilterAggScoresAndTakeTopKContexts(fSet) and
  \* ---- aggScoresAndTakeTopKContexts(cids, eids, scores), on one input
  ovWep,                \* input postings [cids, eids, scores]
  ovK,                  \* the parameter k
  fSet,                 \* the filter set of entities
  ovResult,             \* output table of the filtering aggregator
  ovPc,
  unfResult,            \* output table of the unfiltered aggregator
  unfPc

ovVars == <<ovWep, ovK, fSet, ovResult, ovPc, unfResult, unfPc>>

VARIABLES
  \* ---- multVarsFilterAggScoresAndTakeTopKContexts(fMap)
  mfWep,                \* input postings [cids, eids, scores]
  fMap,                 \* the filter: eid -> table of rows
  mfNofVars,            \* the parameter nofVars
  mfKLimit,             \* the parameter kLimit
  mfI,                  \* loop index i
  mfEntitiesInContext, mfFilteredEntitiesInContext,
  mfCurrentCid, mfCscore,
  mfMap,                \* AggMap: key -> [first, second = set of <<score, cid>>]
  mfResult,             \* the caller's output table
  mfPc

mfVars == <<mfWep, fMap, mfNofVars, mfKLimit, mfI, mfEntitiesInContext,
            mfFilteredEntitiesInContext, mfCurrentCid, mfCscore, mfMap,
            mfResult, mfPc>>

VARIABLES
  \* ---- aggScoresAndTakeTopKContexts(nonAggRes, k, res), the row-based one
  nonAggRes,            \* the input rows, sorted in place
  raK,                  \* the parameter k
  res,                  \* the output rows
  contextsInResult,
  raI,                  \* loop index i
  raPc

raVars == <<nonAggRes, raK, res, contextsInResult, raI, raPc>>

VARIABLES
  \* ---- filterByRange
  wepPreFilter,         \* input postings [cids, wids, scores]
  idRange,              \* [first, last]
  wepResult,            \* the result [cids, wids, scores]
  nofResultElements,
  frI,                  \* loop index i
  frPc

frVars == <<wepPreFilter, idRange, wepResult, nofResultElements, frI, frPc>>

VARIABLES
  \* ---- appendCrossProduct(cids, eids, scores, from, toExclusive, subRes1,
  \* ---- subRes2, res)
  acWep,                \* input postings [cids, eids, scores]
  from, toExclusive,    \* the context run [from, toExclusive)
  subRes1, subRes2,     \* the two sets of entities
  acRes,                \* the caller's vector of rows
  acResAtEntry,         \* acRes as it was when the call began
  contextSubRes1, contextSubRes2,
  done,                 \* the entities of the run seen so far
  acI,                  \* loop index i
  acPc

acVars == <<acWep, from, toExclusive, subRes1, subRes2, acRes, acResAtEntry,
            contextSubRes1, contextSubRes2, done, acI, acPc>>

VARIABLES
  \* ---- appendCrossProduct(cids, eids, scores, from, toExclusive,
  \* ---- subResMaps, res)
  amWep,                \* input postings [cids, eids, scores]
  amFrom, amToExclusive,
  subResMaps,           \* sequence of maps eid -> sequence of rows
  amRes,                \* the caller's vector of rows
  amResAtEntry,         \* amRes as it was when the call began
  subResMatches,        \* per map, the rows gathered for the run
  distinctEids,
  amI,                  \* loop index i
  amPc

amVars == <<amWep, amFrom, amToExclusive, subResMaps, amRes, amResAtEntry,
            subResMatches, distinctEids, amI, amPc>>

VARIABLES
  \* ---- the entry of a call: the checks a function makes before its loop
  peCallee,             \* the function called
  peSizes,              \* sizes of the columns [cids, eids, scores, wids]
  peNofLists,           \* wepVecs.size() of a k-way call
  peOutcome,            \* what the entry of the call led to
  pePc

peVars == <<peCallee, peSizes, peNofLists, peOutcome, pePc>>

VARIABLES
  \* ---- CancellationHandle
  cancellationState_,   \* the state of the handle
  chMode,               \* "ENABLED" or "NO_WATCH_DOG"
  chWatchDogRunning,    \* startWatchDog was called
  chLastOp,             \* the operation that was called last
  chThrew,              \* the last operation threw a CancellationException
  chCalls,              \* number of operations called so far
  chPc

chVars == <<cancellationState_, chMode, chWatchDogRunning, chLastOp, chThrew,
            chCalls, chPc>>

VARIABLES
  \* ---- intersectTwoPostingLists(cids1, scores1, cids2, scores2,
  \* ---- resultCids, resultScores)
  cids1, scores1,
  cids2, scores2,
  resultCids,           \* the caller's result vectors
  resultScores,
  itI, itJ,             \* loop indices i and j
  itPc

itVars == <<cids1, scores1, cids2, scores2, resultCids, resultScores, itI,
            itJ, itPc>>

vars == <<ciVars, kwVars, aggVars, mvVars, ovVars, mfVars, raVars, frVars,
      acVars, amVars, peVars, chVars, itVars>>

\* ------------------------------------------------------------------------
\* Helpers on sequences and sets

Range(s) == {s[p] : p \in DOMAIN s}

IsNonDecreasing(s) == \A p \in 1..(Len(s) - 1) : s[p] <= s[p + 1]

\* The non-decreasing sequences over S of length m.
RECURSIVE SortedSeqsOfLen(_, _)
SortedSeqsOfLen(S, m) ==
  IF m = 0 THEN {<<>>}
  ELSE {Append(q[1], q[2]) :
          q \in {q \in SortedSeqsOfLen(S, m - 1) \X S :
                   q[1] = <<>> \/ q[1][Len(q[1])] <= q[2]}}

\* All non-decreasing sequences over S of length at most len: the cids
\* column of a WordEntityPostings is sorted.
SortedSeqs(S, len) == UNION {SortedSeqsOfLen(S, m) : m \in 0..len}

\* The number of positions of s holding x.
Count(s, x) == Cardinality({p \in DOMAIN s : s[p] = x})

\* The multiset of the elements of s, as a function element -> multiplicity.
BagOf(s) == [x \in Range(s) |-> Count(s, x)]

RECURSIVE Pow(_, _)
Pow(b, e) == IF e = 0 THEN 1 ELSE b * Pow(b, e - 1)

\* ------------------------------------------------------------------------
\* Idle states of the three machines

NoEids == <<-1>>

CIIdle ==
  /\ matchingContextsWep = [cids |-> <<>>, wids |-> <<>>]
  /\ eBlockWep = [cids |-> <<>>, eids |-> <<>>, scores |-> <<>>]
  /\ ciResult = [wids |-> <<>>, cids |-> <<>>, eids |-> <<>>, scores |-> <<>>]
  /\ ciI = 0 /\ ciJ = 0 /\ ciK = 0
  /\ ciOutOfRange = FALSE
  /\ ciPc = "idle"

KWIdle ==
  /\ wepVecs = <<>>
  /\ lastListEids = NoEids
  /\ kwResult = [cids |-> <<>>, eids |-> <<>>, scores |-> <<>>, wids |-> <<>>]
  /\ nextIndices = <<>>
  /\ currentContext = 0 /\ currentList = 0 /\ streak = 0 /\ n = 0
  /\ kwPc = "idle"

AggIdle ==
  /\ wep = [cids |-> <<>>, eids |-> <<>>, scores |-> <<>>, wids |-> <<>>]
  /\ kArg = 0
  /\ aggI = 0
  /\ map = <<>>
  /\ topMap = <<>>
  /\ iterated = {}
  /\ dynResult = <<>>
  /\ aggPc = "idle"

MVIdle ==
  /\ mvWep = [cids |-> <<>>, eids |-> <<>>, scores |-> <<>>]
  /\ nofVars = 0
  /\ mvI = 0
  /\ entitiesInContext = <<>>
  /\ currentCid = 0 /\ cscore = 0
  /\ mvMap = <<>>
  /\ mvResult = <<>>
  /\ mvPc = "idle"

OVIdle ==
  /\ ovWep = [cids |-> <<>>, eids |-> <<>>, scores |-> <<>>]
  /\ ovK = 0
  /\ fSet = {}
  /\ ovResult = <<>>
  /\ ovPc = "idle"
  /\ unfResult = <<>>
  /\ unfPc = "idle"

MFIdle ==
  /\ mfWep = [cids |-> <<>>, eids |-> <<>>, scores |-> <<>>]
  /\ fMap = <<>>
  /\ mfNofVars = 0
  /\ mfKLimit = 0
  /\ mfI = 0
  /\ mfEntitiesInContext = <<>>
  /\ mfFilteredEntitiesInContext = <<>>
  /\ mfCurrentCid = 0 /\ mfCscore = 0
  /\ mfMap = <<>>
  /\ mfResult = <<>>
  /\ mfPc = "idle"

RAIdle ==
  /\ nonAggRes = <<>>
  /\ raK = 0
  /\ res = <<>>
  /\ contextsInResult = 0
  /\ raI = 0
  /\ raPc = "idle"

FRIdle ==
  /\ wepPreFilter = [cids |-> <<>>, wids |-> <<>>, scores |-> <<>>]
  /\ idRange = [first |-> 0, last |-> 0]
  /\ wepResult = [cids |-> <<>>, wids |-> <<>>, scores |-> <<>>]
  /\ nofResultElements = 0
  /\ frI = 0
  /\ frPc = "idle"

ACIdle ==
  /\ acWep = [cids |-> <<>>, eids |-> <<>>, scores |-> <<>>]
  /\ from = 0 /\ toExclusive = 0
  /\ subRes1 = {} /\ subRes2 = {}
  /\ acRes = <<>>
  /\ acResAtEntry = <<>>
  /\ contextSubRes1 = <<>> /\ contextSubRes2 = <<>>
  /\ done = {}
  /\ acI = 0
  /\ acPc = "idle"

AMIdle ==
  /\ amWep = [cids |-> <<>>, eids |-> <<>>, scores |-> <<>>]
  /\ amFrom = 0 /\ amToExclusive = 0
  /\ subResMaps = <<>>
  /\ amRes = <<>>
  /\ amResAtEntry = <<>>
  /\ subResMatches = <<>>
  /\ distinctEids = {}
  /\ amI = 0
  /\ amPc = "idle"

PEIdle ==
  /\ peCallee = "none"
  /\ peSizes = [cids |-> 0, eids |-> 0, scores |-> 0, wids |-> 0]
  /\ peNofLists = 0
  /\ peOutcome = "none"
  /\ pePc = "idle"

CHIdle ==
  /\ cancellationState_ = "NOT_CANCELLED"
  /\ chMode = "NO_WATCH_DOG"
  /\ chWatchDogRunning = FALSE
  /\ chLastOp = "none"
  /\ chThrew = FALSE
  /\ chCalls = 0
  /\ chPc = "idle"

ITIdle ==
  /\ cids1 = <<>> /\ scores1 = <<>>
  /\ cids2 = <<>> /\ scores2 = <<>>
  /\ resultCids = <<>>
  /\ resultScores = <<>>
  /\ itI = 0 /\ itJ = 0
  /\ itPc = "idle"

\* ------------------------------------------------------------------------
\* crossIntersect (FTSAlgorithms.cpp 121-195)
\*
\* The payload columns (wids of the left list; eids and scores of the right
\* list) are never compared by the code, only copied.  Init gives every
\* input row a payload that names its position, so that an output row shows
\* which two input rows it was built from.

LeftWid(p) == 10 + p
RightEid(p) == 20 + p
RightScore(p) == 30 + p

CIInit ==
  /\ \E lc \in SortedSeqs(ContextIds, MaxLen) :
       matchingContextsWep =
         [cids |-> lc, wids |-> [p \in 1..Len(lc) |-> LeftWid(p)]]
  /\ \E rc \in SortedSeqs(ContextIds, MaxLen) :
       eBlockWep = [cids |-> rc,
                    eids |-> [p \in 1..Len(rc) |-> RightEid(p)],
                    scores |-> [p \in 1..Len(rc) |-> RightScore(p)]]
  /\ ciResult = [wids |-> <<>>, cids |-> <<>>, eids |-> <<>>, scores |-> <<>>]
  /\ ciI = 0 /\ ciJ = 0 /\ ciK = 0
  /\ ciOutOfRange = FALSE
  /\ ciPc = "entry"

LSize == Len(matchingContextsWep.cids)
RSize == Len(eBlockWep.cids)
LCid(x) == matchingContextsWep.cids[x + 1]
RCid(x) == eBlockWep.cids[x + 1]

\* crossIntersect touches none of the other machines.
CIFrame == UNCHANGED <<kwVars, aggVars, mvVars, ovVars, mfVars, raVars,
      frVars, acVars, amVars, peVars, chVars, itVars>>

\* Lines 142-144: the trivial empty case.
CIEntry ==
  /\ ciPc = "entry"
  /\ CIFrame
  /\ ciPc' = IF LSize = 0 \/ RSize = 0 THEN "done" ELSE "outer"
  /\ UNCHANGED <<matchingContextsWep, eBlockWep, ciResult, ciI, ciJ, ciK,
                 ciOutOfRange>>

\* Line 157: the condition of the outer while.
CIOuter ==
  /\ ciPc = "outer"
  /\ CIFrame
  /\ ciPc' = IF ciI < LSize /\ ciJ < RSize THEN "skipLeft" ELSE "done"
  /\ UNCHANGED <<matchingContextsWep, eBlockWep, ciResult, ciI, ciJ, ciK,
                 ciOutOfRange>>

\* Lines 158-163: advance i while the left cid is smaller.
CISkipLeft ==
  /\ ciPc = "skipLeft"
  /\ CIFrame
  /\ IF LCid(ciI) < RCid(ciJ)
       THEN /\ ciI' = ciI + 1
            /\ ciPc' = IF ciI + 1 >= LSize THEN "done" ELSE "skipLeft"
       ELSE /\ ciI' = ciI
            /\ ciPc' = "skipRight"
  /\ UNCHANGED <<matchingContextsWep, eBlockWep, ciResult, ciJ, ciK,
                 ciOutOfRange>>

\* Lines 164-169: advance j while the right cid is smaller.
CISkipRight ==
  /\ ciPc = "skipRight"
  /\ CIFrame
  /\ IF RCid(ciJ) < LCid(ciI)
       THEN /\ ciJ' = ciJ + 1
            /\ ciPc' = IF ciJ + 1 >= RSize THEN "done" ELSE "skipRight"
       ELSE /\ ciJ' = ciJ
            /\ ciPc' = "match"
  /\ UNCHANGED <<matchingContextsWep, eBlockWep, ciResult, ciI, ciK,
                 ciOutOfRange>>

\* Line 170 and 176, and line 192 when the condition fails.
CIMatch ==
  /\ ciPc = "match"
  /\ CIFrame
  /\ IF LCid(ciI) = RCid(ciJ)
       THEN /\ ciK' = 0
            /\ ciI' = ciI
            /\ ciPc' = "run"
       ELSE /\ ciK' = ciK
            /\ ciI' = ciI + 1
            /\ ciPc' = "outer"
  /\ UNCHANGED <<matchingContextsWep, eBlockWep, ciResult, ciJ, ciOutOfRange>>

\* Lines 183-185: the only bound the run loop checks compares k, not i + k,
\* with the size of the left list.
RunLoopStops(k) == k >= LSize

\* A row whose context column gets the index j in place of cids[j].
CIPushIndex(w) ==
  ciResult' = [wids |-> Append(ciResult.wids, w),
               cids |-> Append(ciResult.cids, ciJ),
               eids |-> Append(ciResult.eids, eBlockWep.eids[ciJ + 1]),
               scores |-> Append(ciResult.scores, eBlockWep.scores[ciJ + 1])]

\* A row whose word is not pushed.
CIPushWithoutWord(w) ==
  ciResult' = [wids |-> ciResult.wids,
               cids |-> Append(ciResult.cids, RCid(ciJ)),
               eids |-> Append(ciResult.eids, eBlockWep.eids[ciJ + 1]),
               scores |-> Append(ciResult.scores, eBlockWep.scores[ciJ + 1])]

\* One row pushed by lines 178-181.
CIPush(w) ==
  ciResult' = [wids |-> Append(ciResult.wids, w),
               cids |-> Append(ciResult.cids, RCid(ciJ)),
               eids |-> Append(ciResult.eids, eBlockWep.eids[ciJ + 1]),
               scores |-> Append(ciResult.scores, eBlockWep.scores[ciJ + 1])]

\* Lines 177-186, one pass of the run loop.  cids[i + k] and wids[i + k] are
\* read with operator[], which does not check the index: a read at
\* i + k >= size() yields whatever lies behind the vector.
CIRun ==
  /\ ciPc = "run"
  /\ CIFrame
  /\ IF ciI + ciK < LSize
       THEN /\ ciOutOfRange' = ciOutOfRange
            /\ IF LCid(ciI + ciK) = LCid(ciI)
                 THEN /\ CIPush(matchingContextsWep.wids[ciI + ciK + 1])
                      /\ ciK' = ciK + 1
                      /\ ciPc' = IF RunLoopStops(ciK + 1) THEN "afterRun"
                                                          ELSE "run"
                 ELSE /\ ciPc' = "afterRun"
                      /\ UNCHANGED <<ciResult, ciK>>
       ELSE /\ ciOutOfRange' = TRUE
            /\ \E c \in ContextIds \cup Garbage :
                 IF c = LCid(ciI)
                   THEN /\ \E w \in Garbage : CIPush(w)
                        /\ ciK' = ciK + 1
                        /\ ciPc' = IF RunLoopStops(ciK + 1) THEN "afterRun"
                                                            ELSE "run"
                   ELSE /\ ciPc' = "afterRun"
                        /\ UNCHANGED <<ciResult, ciK>>
  /\ UNCHANGED <<matchingContextsWep, eBlockWep, ciI, ciJ>>

\* Lines 187-192: next right row; at the end of the right list the match
\* loop is left and i advances.
CIAfterRun ==
  /\ ciPc = "afterRun"
  /\ CIFrame
  /\ ciJ' = ciJ + 1
  /\ IF ciJ + 1 >= RSize
       THEN /\ ciI' = ciI + 1
            /\ ciPc' = "outer"
       ELSE /\ ciI' = ciI
            /\ ciPc' = "match"
  /\ UNCHANGED <<matchingContextsWep, eBlockWep, ciResult, ciK, ciOutOfRange>>

CINext ==
  \/ CIEntry
  \/ CIOuter
  \/ CISkipLeft
  \/ CISkipRight
  \/ CIMatch
  \/ CIRun
  \/ CIAfterRun

InitCI ==
  /\ CIInit
  /\ KWIdle
  /\ AggIdle
  /\ MVIdle
  /\ OVIdle
  /\ MFIdle
  /\ RAIdle
  /\ FRIdle
  /\ ACIdle
  /\ AMIdle
  /\ PEIdle
  /\ CHIdle
  /\ ITIdle

SpecCI == InitCI /\ [][CINext]_vars

\* The rows of the result of crossIntersect, one tuple per index.
CIRows ==
  [r \in 1..Len(ciResult.cids) |->
     <<ciResult.wids[r], ciResult.cids[r], ciResult.eids[r],
       ciResult.scores[r]>>]

\* The pairs (left row, right row) that share their context.
CIPairs ==
  {pr \in (1..LSize) \X (1..RSize) :
     matchingContextsWep.cids[pr[1]] = eBlockWep.cids[pr[2]]}

\* The row the pair pr has to produce.
CIPairRow(pr) ==
  <<matchingContextsWep.wids[pr[1]], eBlockWep.cids[pr[2]],
    eBlockWep.eids[pr[2]], eBlockWep.scores[pr[2]]>>

\* C1: crossIntersect(L, R) holds exactly one row for each pair of a left
\* and a right row with the same cid, carrying the left row's word and the
\* right row's entity and score, and no other row; its length is the sum
\* over the common contexts v of |L_v| * |R_v|.
C1_CrossProductExact ==
  ciPc = "done" =>
    /\ Len(ciResult.cids) = Cardinality(CIPairs)
    /\ Len(ciResult.wids) = Len(ciResult.cids)
    /\ BagOf(CIRows) =
         [row \in {CIPairRow(pr) : pr \in CIPairs} |->
            Cardinality({pr \in CIPairs : CIPairRow(pr) = row})]

\* Without a read past the end of the left list the result is the exact
\* cross product.
CIExactUnlessOutOfRange ==
  (ciPc = "done" /\ ~ciOutOfRange) =>
    BagOf(CIRows) =
      [row \in {CIPairRow(pr) : pr \in CIPairs} |->
         Cardinality({pr \in CIPairs : CIPairRow(pr) = row})]

\* a can be obtained from b by deleting elements.
RECURSIVE IsSubsequence(_, _)
IsSubsequence(a, b) ==
  IF a = <<>> THEN TRUE
  ELSE IF b = <<>> THEN FALSE
  ELSE IF Head(a) = Head(b) THEN IsSubsequence(Tail(a), Tail(b))
  ELSE IsSubsequence(a, Tail(b))

\* C17 as claimed: the cids of the result are a subsequence of the cids of
\* the left list and a subsequence of the cids of the right list.
C17_SubsequenceOfBoth ==
  ciPc = "done" =>
    /\ IsSubsequence(ciResult.cids, matchingContextsWep.cids)
    /\ IsSubsequence(ciResult.cids, eBlockWep.cids)

\* C17 as the code has it: the contexts of the result are exactly the
\* contexts that occur in both lists, and a context occurs in the result at
\* least once per pair of a left and a right row that share it, so the
\* result is in general longer than the run of the context in either list.
C17_ContextsOfBoth ==
  ciPc = "done" =>
    /\ Range(ciResult.cids) =
         Range(matchingContextsWep.cids) \cap Range(eBlockWep.cids)
    /\ \A v \in Range(ciResult.cids) :
         Count(ciResult.cids, v) >=
           Count(matchingContextsWep.cids, v) * Count(eBlockWep.cids, v)

\* A context with two rows in each list gives four rows, and another
\* context occurs in the left list only.
C17_Witness ==
  /\ ciPc = "done"
  /\ \E v \in ContextIds :
       /\ Count(matchingContextsWep.cids, v) = 2
       /\ Count(eBlockWep.cids, v) = 2
       /\ Count(ciResult.cids, v) = 4
  /\ \E v \in Range(matchingContextsWep.cids) :
       v \notin Range(eBlockWep.cids)

\* C18: the cids column of the result is non-decreasing, and the four
\* columns wids, cids, eids and scores have the same length.
C18_SortedEqualColumns ==
  /\ IsNonDecreasing(ciResult.cids)
  /\ Len(ciResult.wids) = Len(ciResult.cids)
  /\ Len(ciResult.eids) = Len(ciResult.cids)
  /\ Len(ciResult.scores) = Len(ciResult.cids)

\* A result with two different contexts and at least three rows.
C18_Witness ==
  /\ ciPc = "done"
  /\ Len(ciResult.cids) >= 3
  /\ Cardinality(Range(ciResult.cids)) = 2
  /\ Len(ciResult.wids) = Len(ciResult.cids)

\* ------------------------------------------------------------------------
\* crossIntersectKWay (FTSAlgorithms.cpp 373-498)
\*
\* The code compares cids only; scores are added and eids copied.  Init
\* gives row p of list l the score p * (MaxPostings + 1)^(l - 1), so that a sum
\* of one score per list names the rows it was taken from, and gives the
\* rows of the entity column and the word columns values that name their
\* position.

ListScore(l, p) == p * Pow(MaxPostings + 1, l - 1)
ListWid(l, p) == 10 * l + p
ListEid(p) == 20 + p

\* The list l (1-based) with the cids column c.
MakeList(l, c) ==
  [cids |-> c,
   scores |-> [p \in 1..Len(c) |-> ListScore(l, p)],
   wids |-> [p \in 1..Len(c) |-> ListWid(l, p)]]

EmptyResultWep ==
  [cids |-> <<>>, eids |-> <<>>, scores |-> <<>>, wids |-> <<>>]

\* The postings of k lists, each written 10 * list + cid.
ListPostings(k) == {10 * l + c : l \in 1..k, c \in ContextIds}

\* The cids column of list l in a sorted sequence of such postings.
CidsOfList(flat, l) ==
  LET OfList(x) == x \div 10 = l
      own == SelectSeq(flat, OfList)
  IN [p \in 1..Len(own) |-> own[p] % 10]

KWInit ==
  /\ \E k \in 1..MaxLists :
       \E flat \in SortedSeqs(ListPostings(k), MaxPostings) :
         /\ wepVecs = [l \in 1..k |-> MakeList(l, CidsOfList(flat, l))]
         /\ \E entityMode \in BOOLEAN :
              lastListEids =
                IF entityMode
                  THEN [p \in 1..Len(CidsOfList(flat, k)) |-> ListEid(p)]
                  ELSE NoEids
  /\ kwResult = EmptyResultWep
  /\ nextIndices = <<>>
  /\ currentContext = 0 /\ currentList = 0 /\ streak = 0 /\ n = 0
  /\ kwPc = "entry"

\* size_t k = wepVecs.size(), line 375.
K == Len(wepVecs)
\* const bool entityMode = lastListEids != nullptr, line 389.
EntityMode == lastListEids # NoEids
\* wepVecs[l].cids.size() and wepVecs[l].cids[x] for the C++ indices l, x.
ListSize(l) == Len(wepVecs[l + 1].cids)
ListCid(l, x) == wepVecs[l + 1].cids[x + 1]

Min(S) == CHOOSE x \in S : \A y \in S : x <= y

MinSizeOverLists == Min({ListSize(l) : l \in 0..(K - 1)})

\* Lines 391-403: the size the result columns are resized to.
MinSize ==
  IF EntityMode THEN Len(lastListEids)
                ELSE Min({ListSize(l) : l \in 0..(K - 1)})

KWFrame == UNCHANGED <<ciVars, aggVars, mvVars, ovVars, mfVars, raVars,
      frVars, acVars, amVars, peVars, chVars, itVars>>

\* Lines 375-432: the early returns, the resize of the result columns and
\* the start values of the loop.
KWEntry ==
  /\ kwPc = "entry"
  /\ KWFrame
  /\ IF \/ ListSize(K - 1) = 0
        \/ (~EntityMode /\ \E l \in 0..(K - 1) : ListSize(l) = 0)
       THEN /\ kwPc' = "done"
            /\ UNCHANGED <<kwResult, nextIndices, currentContext,
                           currentList, streak, n>>
       ELSE /\ kwResult' =
                 [cids |-> [r \in 1..MinSize |-> 0],
                  eids |-> IF EntityMode THEN [r \in 1..MinSize |-> 0]
                                         ELSE <<>>,
                  scores |-> [r \in 1..MinSize |-> 0],
                  wids |-> <<>>]
            /\ nextIndices' = [l \in 1..K |-> 0]
            /\ currentContext' = ListCid(K - 1, 0)
            /\ currentList' = K - 1
            /\ streak' = 0
            /\ n' = 0
            /\ kwPc' = "loop"
  /\ UNCHANGED <<wepVecs, lastListEids>>

NotAboveContext(cid, ctx) == cid <= ctx

\* The cursor comparison of the inner while of line 438.
BelowContext(cid, ctx) == cid < ctx

\* Lines 438-443: the cursor x of list l after the inner while, which stops
\* at the first cid that is not below ctx or at the end of the list.
RECURSIVE AdvanceCursor(_, _, _)
AdvanceCursor(l, x, ctx) ==
  IF x < ListSize(l) /\ BelowContext(ListCid(l, x), ctx)
    THEN AdvanceCursor(l, x + 1, ctx)
    ELSE x

\* nextIndices[currentList] after the inner while of this pass.
Cursor == AdvanceCursor(currentList, nextIndices[currentList + 1],
                        currentContext)

\* Lines 435-437 and 444-446: the list being visited cannot advance.
CannotAdvance == Cursor = ListSize(currentList)

\* Line 447.
AtId == ListCid(currentList, Cursor)

FullMatchAtLeast == AtId = currentContext /\ streak + 1 >= K

\* Line 449: ++streak == k.
FullMatch == AtId = currentContext /\ streak + 1 = K

ScoreIndexAtCursor(l) ==
  IF l = currentList THEN Cursor ELSE nextIndices[l + 1]

\* Lines 452-453, 458-459 and 472-473: the index at which the score of list
\* l is read when the streak reaches k.
ScoreIndex(l) ==
  IF l = currentList THEN Cursor ELSE nextIndices[l + 1] - 1

RECURSIVE SumScores(_)
\* Lines 450-454: s, the sum of the scores of the lists 0 .. upTo - 1.
SumScores(upTo) ==
  IF upTo = 0 THEN 0
  ELSE SumScores(upTo - 1)
       + wepVecs[upTo].scores[ScoreIndex(upTo - 1) + 1]

\* Lines 460-461: the end of the rows of the last list, from x on, that
\* have the cid ctx.
RECURSIVE RunEnd(_, _)
RunEnd(x, ctx) ==
  IF x >= 0 /\ x < ListSize(K - 1) /\ ListCid(K - 1, x) = ctx
    THEN RunEnd(x + 1, ctx)
    ELSE x

\* The result column col with the values vals written from index at on
\* (resultWep.cids[n] = ... with n++).
RECURSIVE WriteFrom(_, _, _)
WriteFrom(col, at, vals) ==
  IF vals = <<>> THEN col
  ELSE WriteFrom([col EXCEPT ![at + 1] = Head(vals)], at + 1, Tail(vals))

NotResized(col) == col

\* Lines 490-494: resize(n).
Resized(col) == SubSeq(col, 1, n)

\* Lines 435-437, 444-446 and 490-497: a list is exhausted; the loop is
\* left and the result cut to the n rows written.
KWBreak ==
  /\ kwPc = "loop"
  /\ KWFrame
  /\ CannotAdvance
  /\ nextIndices' = [nextIndices EXCEPT ![currentList + 1] = Cursor]
  /\ kwResult' = [cids |-> Resized(kwResult.cids),
                  eids |-> IF EntityMode THEN Resized(kwResult.eids)
                                         ELSE kwResult.eids,
                  scores |-> Resized(kwResult.scores),
                  wids |-> kwResult.wids]
  /\ kwPc' = "done"
  /\ UNCHANGED <<wepVecs, lastListEids, currentContext, currentList, streak,
                 n>>

\* Lines 449-479 with entityMode: one row for every row of the last list
\* at the current context; the cursor of the last list moves behind them.
KWMatchEntities ==
  /\ kwPc = "loop"
  /\ KWFrame
  /\ ~CannotAdvance
  /\ FullMatch
  /\ EntityMode
  /\ LET s == SumScores(K - 1)
         matchInEL == ScoreIndex(K - 1)
         end == RunEnd(matchInEL, currentContext)
         rows == [r \in 1..(end - matchInEL) |-> matchInEL + r - 1]
     IN /\ kwResult' =
             [kwResult EXCEPT
                !.cids = WriteFrom(@, n, [r \in DOMAIN rows |-> currentContext]),
                !.eids = WriteFrom(@, n,
                           [r \in DOMAIN rows |-> lastListEids[rows[r] + 1]]),
                !.scores = WriteFrom(@, n,
                             [r \in DOMAIN rows |->
                                s + wepVecs[K].scores[rows[r] + 1]])]
        /\ n' = n + Len(rows)
        /\ nextIndices' =
             [[nextIndices EXCEPT ![currentList + 1] = Cursor]
                EXCEPT ![K] = end]
  /\ streak' = streak + 1
  /\ currentList' = K - 1
  /\ UNCHANGED <<wepVecs, lastListEids, currentContext, kwPc>>

\* Lines 449-479 without entityMode: one row for the current context.
KWMatchWords ==
  /\ kwPc = "loop"
  /\ KWFrame
  /\ ~CannotAdvance
  /\ FullMatch
  /\ ~EntityMode
  /\ kwResult' =
       [kwResult EXCEPT
          !.cids = WriteFrom(@, n, <<currentContext>>),
          !.scores = WriteFrom(@, n, <<SumScores(K)>>)]
  /\ n' = n + 1
  /\ nextIndices' = [nextIndices EXCEPT ![currentList + 1] = Cursor]
  /\ streak' = streak + 1
  /\ currentList' = K - 1
  /\ UNCHANGED <<wepVecs, lastListEids, currentContext, kwPc>>

\* Lines 448-449 and 484-487: the context is found in this list but the
\* streak is not yet k; go on to the next list.
KWFound ==
  /\ kwPc = "loop"
  /\ KWFrame
  /\ ~CannotAdvance
  /\ AtId = currentContext
  /\ ~FullMatch
  /\ streak' = streak + 1
  /\ nextIndices' = [nextIndices EXCEPT ![currentList + 1] = Cursor + 1]
  /\ currentList' = (currentList + 1) % K
  /\ UNCHANGED <<wepVecs, lastListEids, kwResult, currentContext, n, kwPc>>

\* Lines 480-487: a higher context is found; it becomes the current one.
KWHigher ==
  /\ kwPc = "loop"
  /\ KWFrame
  /\ ~CannotAdvance
  /\ AtId # currentContext
  /\ streak' = 1
  /\ currentContext' = AtId
  /\ nextIndices' = [nextIndices EXCEPT ![currentList + 1] = Cursor + 1]
  /\ currentList' = (currentList + 1) % K
  /\ UNCHANGED <<wepVecs, lastListEids, kwResult, n, kwPc>>

KWNext ==
  \/ KWEntry
  \/ KWBreak
  \/ KWMatchEntities
  \/ KWMatchWords
  \/ KWFound
  \/ KWHigher

InitKWay ==
  /\ KWInit
  /\ CIIdle
  /\ AggIdle
  /\ MVIdle
  /\ OVIdle
  /\ MFIdle
  /\ RAIdle
  /\ FRIdle
  /\ ACIdle
  /\ AMIdle
  /\ PEIdle
  /\ CHIdle
  /\ ITIdle

SpecKWay == InitKWay /\ [][KWNext]_vars

\* The call runs to its end: the loop of lines 433-488 is sequential code
\* that takes its next pass whenever there is one.
SpecKWayFair == InitKWay /\ [][KWNext]_vars /\ WF_vars(KWNext)

\* ---- Claims on crossIntersectKWay

\* The contexts that occur in every one of the k lists.
CommonContexts ==
  {c \in ContextIds : \A l \in 1..K : c \in Range(wepVecs[l].cids)}

\* The number of combinations of one row per list at context c.
RECURSIVE Combinations(_, _)
Combinations(c, upTo) ==
  IF upTo = 0 THEN 1
  ELSE Count(wepVecs[upTo].cids, c) * Combinations(c, upTo - 1)

RECURSIVE SumOver(_, _)
SumOver(S, c) ==
  IF S = {} THEN 0
  ELSE LET x == CHOOSE y \in S : TRUE
       IN Combinations(x, c) + SumOver(S \ {x}, c)

\* C2: crossIntersectKWay emits one row for every combination of one row
\* per list that all share the same cid, so the output length is the sum
\* over the common contexts of the product of the lists' run lengths.
C2_OneRowPerCombination ==
  (kwPc = "done" /\ K >= 2) =>
    Len(kwResult.cids) = SumOver(CommonContexts, K)

\* C3: for k >= 2 lists the contexts of the output are exactly the contexts
\* that occur in every list, and the output cids are non-decreasing.
C3_ExactlyCommonContexts ==
  (kwPc = "done" /\ K >= 2) =>
    /\ Range(kwResult.cids) = CommonContexts
    /\ IsNonDecreasing(kwResult.cids)

\* Two common contexts were emitted although some list also holds a context
\* that is not common.
C3_Witness ==
  /\ kwPc = "done"
  /\ K >= 2
  /\ Cardinality(Range(kwResult.cids)) >= 2
  /\ \E l \in 1..K : ~(Range(wepVecs[l].cids) \subseteq CommonContexts)

\* The choices of one row per list, all at context c, whose scores add up
\* to the score sc.
RowChoices(c, sc) ==
  {f \in [1..K -> 1..MaxPostings] :
     /\ \A l \in 1..K : /\ f[l] <= Len(wepVecs[l].cids)
                        /\ wepVecs[l].cids[f[l]] = c
     /\ LET RECURSIVE Total(_)
            Total(upTo) == IF upTo = 0 THEN 0
                           ELSE wepVecs[upTo].scores[f[upTo]] + Total(upTo - 1)
        IN Total(K) = sc}

C5_WordColumns ==
  (kwPc = "done" /\ Len(kwResult.cids) > 0) =>
    /\ Len(kwResult.wids) = K
    /\ \A l \in 1..K :
         /\ Len(kwResult.wids[l]) = Len(kwResult.cids)
         /\ \A r \in 1..Len(kwResult.cids) :
              \E p \in 1..Len(wepVecs[l].cids) :
                /\ wepVecs[l].cids[p] = kwResult.cids[r]
                /\ wepVecs[l].wids[p] = kwResult.wids[l][r]

\* C19: called with a single list and no entity column, crossIntersectKWay
\* returns the cids and the scores of that list, row for row.
C19_SingleListIsIdentity ==
  (kwPc = "done" /\ K = 1 /\ ~EntityMode) =>
    /\ kwResult.cids = wepVecs[1].cids
    /\ kwResult.scores = wepVecs[1].scores

\* ------------------------------------------------------------------------
\* aggScoresAndTakeTopKContexts(wep, k, dynResult) (FTSAlgorithms.cpp
\* 590-651) and aggScoresAndTakeTopContext(wep, dynResult) (798-835)

AggInit ==
  /\ \E c \in SortedSeqs(ContextIds, MaxLen) :
       \E e \in [1..Len(c) -> EntityIds] :
         \E sc \in [1..Len(c) -> Scores] :
           \E w \in [1..Len(c) -> WordIds] :
             wep = [cids |-> c, eids |-> e, scores |-> sc, wids |-> w]
  /\ kArg \in 0..MaxK
  /\ aggI = 0
  /\ map = <<>>
  /\ topMap = <<>>
  /\ iterated = {}
  /\ dynResult = <<>>
  /\ aggPc = "entry"

AggFrame == UNCHANGED <<ciVars, kwVars, mvVars, ovVars, mfVars, raVars,
      frVars, acVars, amVars, peVars, chVars, itVars>>

\* std::tuple's operator<: lexicographic on (score, cid, wid).
TupleLess(a, b) ==
  \/ a[1] < b[1]
  \/ a[1] = b[1] /\ a[2] < b[2]
  \/ a[1] = b[1] /\ a[2] = b[2] /\ a[3] < b[3]

\* *stcaw.begin(): the smallest element of the ordered set.
Begin(stcaw) == CHOOSE t \in stcaw : \A u \in stcaw : u = t \/ TupleLess(t, u)

\* *stcaw.rbegin(): the largest element of the ordered set.
RBegin(stcaw) == CHOOSE t \in stcaw : \A u \in stcaw : u = t \/ TupleLess(u, t)

\* The largest of the elements that have the lowest score.
LastOfLowestScore(stcaw) ==
  RBegin({t \in stcaw : t[1] = Begin(stcaw)[1]})

\* Line 625: the element that stcaw.erase(*stcaw.begin()) removes.
EraseTarget(stcaw) == Begin(stcaw)

\* The posting i (C++ index) as the tuple of lines 616 and 627.
PostingTuple(i) == <<wep.scores[i + 1], wep.cids[i + 1], wep.wids[i + 1]>>

\* Lines 600-603: k == 1 takes the fast path.
AggEntry ==
  /\ aggPc = "entry"
  /\ AggFrame
  /\ aggPc' = IF kArg = 1 THEN "topLoop" ELSE "loop"
  /\ UNCHANGED <<wep, kArg, aggI, map, topMap, iterated, dynResult>>

\* Lines 614-617: the first posting of an entity.
AggInsertNew ==
  /\ aggPc = "loop"
  /\ AggFrame
  /\ aggI < Len(wep.eids)
  /\ wep.eids[aggI + 1] \notin DOMAIN map
  /\ map' = [e \in DOMAIN map \cup {wep.eids[aggI + 1]} |->
               IF e = wep.eids[aggI + 1]
                 THEN [first |-> 1, second |-> {PostingTuple(aggI)}]
                 ELSE map[e]]
  /\ aggI' = aggI + 1
  /\ UNCHANGED <<wep, kArg, topMap, iterated, dynResult, aggPc>>

\* Lines 623-628: the ordered set after the posting t is offered to it.
Offer(stcaw, t, k) ==
  IF Cardinality(stcaw) < k \/ Begin(stcaw)[1] < t[1]
    THEN (IF Cardinality(stcaw) = k THEN stcaw \ {EraseTarget(stcaw)}
                                    ELSE stcaw) \cup {t}
    ELSE stcaw

\* Lines 618-629: a further posting of an entity.
AggUpdate ==
  /\ aggPc = "loop"
  /\ AggFrame
  /\ aggI < Len(wep.eids)
  /\ wep.eids[aggI + 1] \in DOMAIN map
  /\ map' = [map EXCEPT ![wep.eids[aggI + 1]] =
               [first |-> @.first + 1,
                second |-> Offer(@.second, PostingTuple(aggI), kArg)]]
  /\ aggI' = aggI + 1
  /\ UNCHANGED <<wep, kArg, topMap, iterated, dynResult, aggPc>>

\* Line 613 when i reaches eids.size(), lines 631-632.
AggLoopEnd ==
  /\ aggPc = "loop"
  /\ AggFrame
  /\ aggI = Len(wep.eids)
  /\ aggPc' = "output"
  /\ UNCHANGED <<wep, kArg, aggI, map, topMap, iterated, dynResult>>

\* The elements of the ordered set from begin() to end().
RECURSIVE Ascending(_)
Ascending(stcaw) ==
  IF stcaw = {} THEN <<>>
  ELSE <<Begin(stcaw)>> \o Ascending(stcaw \ {Begin(stcaw)})

\* The elements of the ordered set from rbegin() to rend().
RECURSIVE Descending(_)
Descending(stcaw) ==
  IF stcaw = {} THEN <<>>
  ELSE <<RBegin(stcaw)>> \o Descending(stcaw \ {RBegin(stcaw)})

\* Lines 638-640: the row pushed for the element t of the entity eid.
OutputRow(t, entityScore, eid) == <<t[2], entityScore, eid, t[3]>>

\* Lines 633-642, one pass of the loop over the hash map, which visits the
\* entities in an order the code does not control.
AggOutputEntity ==
  /\ aggPc = "output"
  /\ AggFrame
  /\ \E eid \in DOMAIN map \ iterated :
       LET desc == Descending(map[eid].second)
       IN /\ dynResult' = dynResult \o
               [r \in 1..Len(desc) |->
                  OutputRow(desc[r], map[eid].first, eid)]
          /\ iterated' = iterated \cup {eid}
  /\ UNCHANGED <<wep, kArg, aggI, map, topMap, aggPc>>

\* Line 633 at map.end(), line 643.
AggFinish ==
  /\ aggPc = "output"
  /\ AggFrame
  /\ iterated = DOMAIN map
  /\ aggPc' = "done"
  /\ UNCHANGED <<wep, kArg, aggI, map, topMap, iterated, dynResult>>

\* Lines 806-808: the first posting of an entity on the fast path; second
\* is the tuple (cid, score, wid).
TopInsertNew ==
  /\ aggPc = "topLoop"
  /\ AggFrame
  /\ aggI < Len(wep.eids)
  /\ wep.eids[aggI + 1] \notin DOMAIN topMap
  /\ topMap' = [e \in DOMAIN topMap \cup {wep.eids[aggI + 1]} |->
                  IF e = wep.eids[aggI + 1]
                    THEN [first |-> 1,
                          second |-> <<wep.cids[aggI + 1],
                                       wep.scores[aggI + 1],
                                       wep.wids[aggI + 1]>>]
                    ELSE topMap[e]]
  /\ aggI' = aggI + 1
  /\ UNCHANGED <<wep, kArg, map, iterated, dynResult, aggPc>>

ReplacesOnTie(best, score) == best[2] <= score

\* Line 815: the test that lets a posting replace the best one.
Replaces(best, score) == best[2] < score

\* Lines 811-818: a further posting of an entity on the fast path.
TopUpdate ==
  /\ aggPc = "topLoop"
  /\ AggFrame
  /\ aggI < Len(wep.eids)
  /\ wep.eids[aggI + 1] \in DOMAIN topMap
  /\ topMap' = [topMap EXCEPT ![wep.eids[aggI + 1]] =
                  [first |-> @.first + 1,
                   second |-> IF Replaces(@.second, wep.scores[aggI + 1])
                                THEN <<wep.cids[aggI + 1],
                                       wep.scores[aggI + 1],
                                       wep.wids[aggI + 1]>>
                                ELSE @.second]]
  /\ aggI' = aggI + 1
  /\ UNCHANGED <<wep, kArg, map, iterated, dynResult, aggPc>>

\* The orders in which a loop can visit the keys S of a hash map.
Orders(S) ==
  {o \in [1..Cardinality(S) -> S] : \A e \in S : \E p \in DOMAIN o : o[p] = e}

\* Lines 820-832: the table is resized to map.size() rows and row n gets
\* the n-th entry of the hash map.
TopOutput ==
  /\ aggPc = "topLoop"
  /\ AggFrame
  /\ aggI = Len(wep.eids)
  /\ \E o \in Orders(DOMAIN topMap) :
       dynResult' = [r \in 1..Len(o) |->
                       <<topMap[o[r]].second[1], topMap[o[r]].first, o[r],
                         topMap[o[r]].second[3]>>]
  /\ aggPc' = "done"
  /\ UNCHANGED <<wep, kArg, aggI, map, topMap, iterated>>

AggNext ==
  \/ AggEntry
  \/ AggInsertNew
  \/ AggUpdate
  \/ AggLoopEnd
  \/ AggOutputEntity
  \/ AggFinish
  \/ TopInsertNew
  \/ TopUpdate
  \/ TopOutput

InitAgg ==
  /\ AggInit
  /\ CIIdle
  /\ KWIdle
  /\ MVIdle
  /\ OVIdle
  /\ MFIdle
  /\ RAIdle
  /\ FRIdle
  /\ ACIdle
  /\ AMIdle
  /\ PEIdle
  /\ CHIdle
  /\ ITIdle

SpecAgg == InitAgg /\ [][AggNext]_vars

\* The rows that the caller's table holds before a call on a table that is
\* not empty.
EarlierTable == <<<<9, 9, 9, 9>>>>

\* As AggInit, for a call whose output table already holds a row.
AggInitOnTable ==
  /\ \E c \in SortedSeqs(ContextIds, MaxLen) :
       \E e \in [1..Len(c) -> EntityIds] :
         \E sc \in [1..Len(c) -> Scores] :
           \E w \in [1..Len(c) -> WordIds] :
             wep = [cids |-> c, eids |-> e, scores |-> sc, wids |-> w]
  /\ kArg \in 0..MaxK
  /\ aggI = 0
  /\ map = <<>>
  /\ topMap = <<>>
  /\ iterated = {}
  /\ dynResult = EarlierTable
  /\ aggPc = "entry"

InitAggOnTable ==
  /\ AggInitOnTable
  /\ CIIdle
  /\ KWIdle
  /\ MVIdle
  /\ OVIdle
  /\ MFIdle
  /\ RAIdle
  /\ FRIdle
  /\ ACIdle
  /\ AMIdle
  /\ PEIdle
  /\ CHIdle
  /\ ITIdle

SpecAggOnTable == InitAggOnTable /\ [][AggNext]_vars

\* ---- Claims on the aggregator

\* The C++ indices of the postings of the entity e.
PostingsOf(e) == {i \in 0..(Len(wep.eids) - 1) : wep.eids[i + 1] = e}

\* The entities of the input.
InputEntities == Range(wep.eids)

\* The rows of the output table that belong to the entity e.
RowsOf(e) == {r \in DOMAIN dynResult : dynResult[r][3] = e}

\* C6: on the k > 1 path the entityScore written for the entity e is the
\* number of distinct contexts c for which the input holds a posting
\* (e, c); a further posting of a pair already seen does not count.
C6_CountsDistinctContexts ==
  (aggPc = "done" /\ kArg >= 2) =>
    \A r \in DOMAIN dynResult :
      dynResult[r][2] =
        Cardinality({wep.cids[i + 1] : i \in PostingsOf(dynResult[r][3])})

MinOf(a, b) == IF a <= b THEN a ELSE b

\* C7: for k >= 2 the rows of an entity e are a top-k selection by score:
\* of its d distinct (score, context, word) postings exactly min(k, d) are
\* emitted, one row each, and no posting left out has a strictly higher
\* score than an emitted one.
C7_TopKSelection ==
  (aggPc = "done" /\ kArg >= 2) =>
    \A e \in InputEntities :
      LET distinct == {PostingTuple(i) : i \in PostingsOf(e)}
          emitted == map[e].second
      IN /\ Cardinality(RowsOf(e)) = MinOf(kArg, Cardinality(distinct))
         /\ Cardinality(emitted) = Cardinality(RowsOf(e))
         /\ \A t \in emitted :
              \E r \in RowsOf(e) : dynResult[r] = OutputRow(t, map[e].first, e)
         /\ \A t \in distinct \ emitted : \A u \in emitted : t[1] <= u[1]

\* C8: for every k >= 0 the aggregator emits at most k rows for each
\* entity, and while it runs the ordered set of every entity never holds
\* more than k entries.
C8_AtMostK ==
  /\ \A e \in DOMAIN map : Cardinality(map[e].second) <= kArg
  /\ aggPc = "done" =>
       \A e \in InputEntities : Cardinality(RowsOf(e)) <= kArg

\* The case of C9 in the state before a posting is processed: the entity's
\* set is full, the posting scores strictly higher than the minimum, and
\* several retained entries share the minimum score.
EvictionWithTie ==
  /\ aggPc = "loop"
  /\ aggI < Len(wep.eids)
  /\ wep.eids[aggI + 1] \in DOMAIN map
  /\ LET stcaw == map[wep.eids[aggI + 1]].second
     IN /\ kArg >= 2
        /\ Cardinality(stcaw) = kArg
        /\ Begin(stcaw)[1] < wep.scores[aggI + 1]
        /\ Cardinality({t \in stcaw : t[1] = Begin(stcaw)[1]}) >= 2

\* The retained entries of the entity of the next posting that share the
\* minimum score.
TiedEntries ==
  LET stcaw == map[wep.eids[aggI + 1]].second
  IN {t \in stcaw : t[1] = Begin(stcaw)[1]}

\* C9 as claimed: the eviction keeps, among the entries that share the
\* minimum score, the one with the smallest context id.
C9_KeepsSmallestContext ==
  [][EvictionWithTie =>
       \E t \in TiedEntries :
         /\ \A u \in TiedEntries : t[2] <= u[2]
         /\ t \in map'[wep.eids[aggI + 1]].second]_vars

\* C9 as the code has it: the eviction removes, among the entries that
\* share the minimum score, the one with the smallest context id (the
\* smallest word id among those of that context), and keeps every other
\* entry.
C9_EvictsSmallestContext ==
  [][EvictionWithTie =>
       LET before == map[wep.eids[aggI + 1]].second
           after == map'[wep.eids[aggI + 1]].second
       IN /\ Cardinality(before \ after) = 1
          /\ \A t \in before \ after :
               /\ t \in TiedEntries
               /\ \A u \in TiedEntries :
                    \/ t[2] < u[2]
                    \/ t[2] = u[2] /\ t[3] <= u[3]
          /\ PostingTuple(aggI) \in after]_vars

\* Two entries of one entity tied at the lowest score at different
\* contexts, and a third posting with a higher score has evicted one.
C9_Witness ==
  /\ aggPc = "loop"
  /\ kArg = 2
  /\ aggI = 3
  /\ wep.eids[1] = wep.eids[2] /\ wep.eids[2] = wep.eids[3]
  /\ wep.scores[1] = wep.scores[2] /\ wep.scores[2] < wep.scores[3]
  /\ wep.cids[1] < wep.cids[2]
  /\ map[wep.eids[1]].second = {PostingTuple(1), PostingTuple(2)}

\* The first posting of the entity e that attains the highest score of e.
FirstBest(e) ==
  CHOOSE i \in PostingsOf(e) :
    /\ \A j \in PostingsOf(e) : wep.scores[j + 1] <= wep.scores[i + 1]
    /\ \A j \in PostingsOf(e) :
         wep.scores[j + 1] = wep.scores[i + 1] => i <= j

\* C10: with k = 1 the table holds exactly one row per entity of the input;
\* its entityScore is the number of postings of the entity, its context and
\* word are those of the first posting that attains the entity's highest
\* score.
C10_TopContext ==
  (aggPc = "done" /\ kArg = 1) =>
    /\ Len(dynResult) = Cardinality(InputEntities)
    /\ \A e \in InputEntities :
         \E r \in DOMAIN dynResult :
           dynResult[r] = <<wep.cids[FirstBest(e) + 1],
                            Cardinality(PostingsOf(e)), e,
                            wep.wids[FirstBest(e) + 1]>>

\* Two entities, one of which attains its highest score twice, at
\* different contexts.
C10_Witness ==
  /\ aggPc = "done"
  /\ kArg = 1
  /\ Cardinality(InputEntities) = 2
  /\ \E e \in InputEntities :
       \E i \in PostingsOf(e) :
         /\ i # FirstBest(e)
         /\ wep.scores[i + 1] = wep.scores[FirstBest(e) + 1]
         /\ wep.cids[i + 1] # wep.cids[FirstBest(e) + 1]

\* The positions of the rows of the entity e in the output table, in
\* table order.
RECURSIVE RowSeqOf(_, _)
RowSeqOf(e, upTo) ==
  IF upTo = 0 THEN <<>>
  ELSE IF dynResult[upTo][3] = e
         THEN Append(RowSeqOf(e, upTo - 1), upTo)
         ELSE RowSeqOf(e, upTo - 1)

\* C11: for k >= 2 the rows of one entity are consecutive in the output,
\* and each row can be traced to a posting of the entity with the row's
\* context and word such that the scores of these postings do not increase
\* from one row of the entity to the next.
C11_ConsecutiveDescending ==
  (aggPc = "done" /\ kArg >= 2) =>
    \A e \in InputEntities :
      LET rows == RowSeqOf(e, Len(dynResult))
      IN /\ \A p \in 1..(Len(rows) - 1) : rows[p + 1] = rows[p] + 1
         /\ \E f \in [DOMAIN rows -> PostingsOf(e)] :
              /\ \A p \in DOMAIN rows :
                   dynResult[rows[p]] =
                     OutputRow(PostingTuple(f[p]), map[e].first, e)
              /\ \A p \in 1..(Len(rows) - 1) :
                   wep.scores[f[p] + 1] >= wep.scores[f[p + 1] + 1]

\* Two entities; one of them has two rows that come from postings of
\* different scores at different contexts, the higher score first.
C11_Witness ==
  /\ aggPc = "done"
  /\ kArg >= 2
  /\ Cardinality(InputEntities) = 2
  /\ \E e \in InputEntities :
       /\ Cardinality(RowsOf(e)) = 2
       /\ \E i, j \in PostingsOf(e) :
            /\ wep.scores[i + 1] < wep.scores[j + 1]
            /\ wep.cids[i + 1] < wep.cids[j + 1]
            /\ \E r \in RowsOf(e) :
                 /\ dynResult[r][1] = wep.cids[j + 1]
                 /\ r + 1 \in RowsOf(e)
                 /\ dynResult[r + 1][1] = wep.cids[i + 1]

\* ------------------------------------------------------------------------
\* multVarsAggScoresAndTakeTopKContexts(cids, eids, scores, nofVars, kLimit,
\* dynResult) called with kLimit = 1 (FTSAlgorithms.cpp 863-875), which is
\* multVarsAggScoresAndTakeTopContext (1024-1117)

MVInit ==
  /\ \E c \in SortedSeqs(ContextIds, MaxLen) :
       \E e \in [1..Len(c) -> EntityIds] :
         \E sc \in [1..Len(c) -> Scores] :
           mvWep = [cids |-> c, eids |-> e, scores |-> sc]
  /\ nofVars \in NofVarsValues
  /\ mvI = 0
  /\ entitiesInContext = <<>>
  /\ currentCid = 0 /\ cscore = 0
  /\ mvMap = <<>>
  /\ mvResult = <<>>
  /\ mvPc = "entry"

MVFrame == UNCHANGED <<ciVars, kwVars, aggVars, ovVars, mfVars, raVars,
      frVars, acVars, amVars, peVars, chVars, itVars>>

\* Lines 868-870 and 1042-1043: nothing to do for an empty list, otherwise
\* the first posting gives the current context and its score.
MVEntry ==
  /\ mvPc = "entry"
  /\ MVFrame
  /\ IF Len(mvWep.cids) = 0
       THEN /\ mvPc' = "done"
            /\ UNCHANGED <<currentCid, cscore>>
       ELSE /\ mvPc' = "loop"
            /\ currentCid' = mvWep.cids[1]
            /\ cscore' = mvWep.scores[1]
  /\ UNCHANGED <<mvWep, nofVars, mvI, entitiesInContext, mvMap, mvResult>>

\* Lines 1046-1047: a posting of the current context.
MVSameContext ==
  /\ mvPc = "loop"
  /\ MVFrame
  /\ mvI < Len(mvWep.cids)
  /\ mvWep.cids[mvI + 1] = currentCid
  /\ entitiesInContext' = Append(entitiesInContext, mvWep.eids[mvI + 1])
  /\ mvI' = mvI + 1
  /\ UNCHANGED <<mvWep, nofVars, currentCid, cscore, mvMap, mvResult, mvPc>>

\* Lines 1054-1060: the key number j, built by mixed-radix indexing into
\* entitiesInContext.
KeyOf(j, ents, nv) ==
  [k \in 1..nv |-> ents[((j \div Pow(Len(ents), k - 1)) % Len(ents)) + 1]]

\* Lines 1061-1070: the map after one key of the context cid is added.
AddKey(m, key, cid, sc) ==
  IF key \notin DOMAIN m
    THEN [x \in DOMAIN m \cup {key} |->
            IF x = key THEN [first |-> 1, second |-> <<cid, sc>>] ELSE m[x]]
    ELSE [m EXCEPT ![key] =
            [first |-> @.first + 1,
             second |-> IF @.second[2] < sc THEN <<cid, sc>> ELSE @.second]]

\* Lines 1051-1071: the loop over j from the value j on.
RECURSIVE CrossProductFrom(_, _, _, _, _, _)
CrossProductFrom(m, j, ents, nv, cid, sc) ==
  IF j >= Pow(Len(ents), nv) THEN m
  ELSE CrossProductFrom(AddKey(m, KeyOf(j, ents, nv), cid, sc), j + 1,
                        ents, nv, cid, sc)

\* Lines 1049-1076: the first posting of the next context; the context that
\* ends is added to the map.
MVNewContext ==
  /\ mvPc = "loop"
  /\ MVFrame
  /\ mvI < Len(mvWep.cids)
  /\ mvWep.cids[mvI + 1] # currentCid
  /\ mvMap' = CrossProductFrom(mvMap, 0, entitiesInContext, nofVars,
                               currentCid, cscore)
  /\ entitiesInContext' = <<mvWep.eids[mvI + 1]>>
  /\ currentCid' = mvWep.cids[mvI + 1]
  /\ cscore' = mvWep.scores[mvI + 1]
  /\ mvI' = mvI + 1
  /\ UNCHANGED <<mvWep, nofVars, mvResult, mvPc>>

\* Lines 1079-1099: the last context.
MVLastContext ==
  /\ mvPc = "loop"
  /\ MVFrame
  /\ mvI = Len(mvWep.cids)
  /\ mvMap' = CrossProductFrom(mvMap, 0, entitiesInContext, nofVars,
                               currentCid, cscore)
  /\ mvPc' = "output"
  /\ UNCHANGED <<mvWep, nofVars, mvI, entitiesInContext, currentCid, cscore,
                 mvResult>>

\* Lines 1100-1114: one row per key, in the order of the hash map.
MVOutput ==
  /\ mvPc = "output"
  /\ MVFrame
  /\ \E o \in Orders(DOMAIN mvMap) :
       mvResult' = [r \in 1..Len(o) |->
                      <<mvMap[o[r]].second[1], mvMap[o[r]].first>> \o o[r]]
  /\ mvPc' = "done"
  /\ UNCHANGED <<mvWep, nofVars, mvI, entitiesInContext, currentCid, cscore,
                 mvMap>>

MVNext ==
  \/ MVEntry
  \/ MVSameContext
  \/ MVNewContext
  \/ MVLastContext
  \/ MVOutput

InitMultVars ==
  /\ MVInit
  /\ CIIdle
  /\ KWIdle
  /\ AggIdle
  /\ OVIdle
  /\ MFIdle
  /\ RAIdle
  /\ FRIdle
  /\ ACIdle
  /\ AMIdle
  /\ PEIdle
  /\ CHIdle
  /\ ITIdle

SpecMultVars == InitMultVars /\ [][MVNext]_vars

\* ---- Claims on the multi-variable aggregator

\* The entities that have a posting at the context c.
MVEntitiesOf(c) ==
  {mvWep.eids[p] : p \in {q \in DOMAIN mvWep.cids : mvWep.cids[q] = c}}

\* The tuples of length nofVars over the entities of one context.
MVTuples == UNION {[1..nofVars -> MVEntitiesOf(c)] : c \in Range(mvWep.cids)}

\* C12: with k = 1 the output has exactly one row per distinct tuple that
\* can be formed from the entities of some context, and the entityScore of
\* a tuple is the number of distinct contexts in which all entities of the
\* tuple occur.
C12_OneRowPerTupleCountingContexts ==
  mvPc = "done" =>
    /\ Len(mvResult) = Cardinality(MVTuples)
    /\ \A t \in MVTuples :
         \E r \in DOMAIN mvResult :
           /\ SubSeq(mvResult[r], 3, 2 + nofVars) = t
           /\ mvResult[r][2] =
                Cardinality({c \in Range(mvWep.cids) :
                               Range(t) \subseteq MVEntitiesOf(c)})

\* ------------------------------------------------------------------------
\* oneVarFilterAggScoresAndTakeTopKContexts(cids, eids, scores, fSet, k,
\* dynResult) (FTSAlgorithms.cpp 1361-1418) and the unfiltered
\* aggScoresAndTakeTopKContexts(cids, eids, scores, k, dynResult) (527-587)
\* with its k = 1 path aggScoresAndTakeTopContext(cids, eids, scores,
\* dynResult) (725-759), both called on the same postings with their own,
\* empty, output table.

OVInit ==
  /\ \E c \in SortedSeqs(ContextIds, MaxLen) :
       \E e \in [1..Len(c) -> EntityIds] :
         \E sc \in [1..Len(c) -> Scores] :
           ovWep = [cids |-> c, eids |-> e, scores |-> sc]
  /\ ovK \in 0..MaxK
  /\ fSet \in SUBSET EntityIds
  /\ ovResult = <<>>
  /\ ovPc = "entry"
  /\ unfResult = <<>>
  /\ unfPc = "entry"

OVFrame == UNCHANGED <<ciVars, kwVars, aggVars, mvVars, mfVars, raVars,
      frVars, acVars, amVars, peVars, chVars, itVars>>

\* std::pair's operator<: lexicographic on (score, cid).
PairLess(a, b) ==
  \/ a[1] < b[1]
  \/ a[1] = b[1] /\ a[2] < b[2]

\* *stc.begin() and *stc.rbegin() of a std::set<pair<Score, cid>>.
StcBegin(stc) == CHOOSE t \in stc : \A u \in stc : u = t \/ PairLess(t, u)
StcRBegin(stc) == CHOOSE t \in stc : \A u \in stc : u = t \/ PairLess(u, t)

\* Lines 546-561 and 1391-1406: the map after a posting (eid, score, cid)
\* that passed the filter, if any.
ScoreMapStep(m, eid, score, cid, k) ==
  IF eid \notin DOMAIN m
    THEN [x \in DOMAIN m \cup {eid} |->
            IF x = eid THEN [first |-> 1, second |-> {<<score, cid>>}]
                       ELSE m[x]]
    ELSE [m EXCEPT ![eid] =
            [first |-> @.first + 1,
             second |->
               IF Cardinality(@.second) < k \/ StcBegin(@.second)[1] < score
                 THEN (IF Cardinality(@.second) = k
                         THEN @.second \ {StcBegin(@.second)}
                         ELSE @.second) \cup {<<score, cid>>}
                 ELSE @.second]]

\* No filter: every entity passes.
PassesAll(eid, F) == TRUE

\* Line 1390: fSet.count(eids[i]) > 0.
InFilter(eid, F) == eid \in F

\* Lines 1389-1408: the loop of the filtering aggregator from i on.
RECURSIVE FilterLoopFrom(_, _)
FilterLoopFrom(m, i) ==
  IF i >= Len(ovWep.eids) THEN m
  ELSE FilterLoopFrom(
         IF InFilter(ovWep.eids[i + 1], fSet)
           THEN ScoreMapStep(m, ovWep.eids[i + 1], ovWep.scores[i + 1],
                             ovWep.cids[i + 1], ovK)
           ELSE m,
         i + 1)

\* Lines 545-562: the loop of the unfiltered aggregator from i on.
RECURSIVE AggLoopFrom(_, _)
AggLoopFrom(m, i) ==
  IF i >= Len(ovWep.eids) THEN m
  ELSE AggLoopFrom(ScoreMapStep(m, ovWep.eids[i + 1], ovWep.scores[i + 1],
                                ovWep.cids[i + 1], ovK),
                   i + 1)

\* The elements of a std::set<pair<Score, cid>> from rbegin() to rend().
RECURSIVE StcDescending(_)
StcDescending(stc) ==
  IF stc = {} THEN <<>>
  ELSE <<StcRBegin(stc)>> \o StcDescending(stc \ {StcRBegin(stc)})

\* Lines 565-573 and 1411-1418: the rows pushed for the entities in the
\* order o of the hash map, from the entity number p on.
RECURSIVE ScoreMapRows(_, _, _)
ScoreMapRows(m, o, p) ==
  IF p > Len(o) THEN <<>>
  ELSE LET desc == StcDescending(m[o[p]].second)
       IN [r \in 1..Len(desc) |-> <<desc[r][2], m[o[p]].first, o[p]>>]
            \o ScoreMapRows(m, o, p + 1)

\* Lines 1361-1418, the whole call.
OneVarFilter ==
  /\ ovPc = "entry"
  /\ OVFrame
  /\ IF Len(ovWep.cids) = 0 \/ fSet = {}
       THEN ovResult' = ovResult
       ELSE LET m == FilterLoopFrom(<<>>, 0)
            IN \E o \in Orders(DOMAIN m) :
                 ovResult' = ovResult \o ScoreMapRows(m, o, 1)
  /\ ovPc' = "done"
  /\ UNCHANGED <<ovWep, ovK, fSet, unfResult, unfPc>>

\* Lines 734-745: the map of aggScoresAndTakeTopContext after the posting
\* (eid, score, cid); second is the pair (cid, score).
TopContextStep(m, eid, score, cid) ==
  IF eid \notin DOMAIN m
    THEN [x \in DOMAIN m \cup {eid} |->
            IF x = eid THEN [first |-> 1, second |-> <<cid, score>>]
                       ELSE m[x]]
    ELSE [m EXCEPT ![eid] =
            [first |-> @.first + 1,
             second |-> IF @.second[2] < score THEN <<cid, score>>
                                               ELSE @.second]]

\* Lines 733-746: the loop of aggScoresAndTakeTopContext from i on.
RECURSIVE TopContextLoopFrom(_, _)
TopContextLoopFrom(m, i) ==
  IF i >= Len(ovWep.eids) THEN m
  ELSE TopContextLoopFrom(
         TopContextStep(m, ovWep.eids[i + 1], ovWep.scores[i + 1],
                        ovWep.cids[i + 1]),
         i + 1)

\* Lines 527-587 and, for k = 1, 725-759: the whole call.
AggThreeLists ==
  /\ unfPc = "entry"
  /\ OVFrame
  /\ IF ovK = 1
       THEN LET m == TopContextLoopFrom(<<>>, 0)
            IN \E o \in Orders(DOMAIN m) :
                 unfResult' = [r \in 1..Len(o) |->
                                 <<m[o[r]].second[1], m[o[r]].first, o[r]>>]
       ELSE LET m == AggLoopFrom(<<>>, 0)
            IN \E o \in Orders(DOMAIN m) :
                 unfResult' = unfResult \o ScoreMapRows(m, o, 1)
  /\ unfPc' = "done"
  /\ UNCHANGED <<ovWep, ovK, fSet, ovResult, ovPc>>

OVNext ==
  \/ OneVarFilter
  \/ AggThreeLists

InitOneVarFilter ==
  /\ OVInit
  /\ CIIdle
  /\ KWIdle
  /\ AggIdle
  /\ MVIdle
  /\ MFIdle
  /\ RAIdle
  /\ FRIdle
  /\ ACIdle
  /\ AMIdle
  /\ PEIdle
  /\ CHIdle
  /\ ITIdle

SpecOneVarFilter == InitOneVarFilter /\ [][OVNext]_vars

\* ---- Claims on the filtering aggregator

\* C13: for k >= 1 and a non-empty filter set, the rows of the filtering
\* aggregator are, as a set, exactly the rows of the unfiltered aggregator
\* on the same postings whose entity is in the filter set.
C13_FilterIsPostHocFilter ==
  (ovPc = "done" /\ unfPc = "done" /\ ovK >= 1 /\ fSet # {}) =>
    Range(ovResult) = {row \in Range(unfResult) : row[3] \in fSet}

\* Both aggregators have run with k >= 2; the filter keeps an entity that
\* has two rows and drops an entity of the input.
C13_Witness ==
  /\ ovPc = "done" /\ unfPc = "done"
  /\ ovK >= 2
  /\ \E e \in fSet :
       Cardinality({r \in DOMAIN ovResult : ovResult[r][3] = e}) = 2
  /\ \E e \in Range(ovWep.eids) : e \notin fSet
  /\ Len(unfResult) > Len(ovResult)

\* ------------------------------------------------------------------------
\* multVarsFilterAggScoresAndTakeTopKContexts(cids, eids, scores, fMap,
\* nofVars, kLimit, dynResult) (FTSAlgorithms.cpp 1422-1560)

\* A table of the filter map holds one or two rows of one column.
MFInit ==
  /\ \E c \in SortedSeqs(ContextIds, MaxLen) :
       \E e \in [1..Len(c) -> EntityIds] :
         \E sc \in [1..Len(c) -> Scores] :
           mfWep = [cids |-> c, eids |-> e, scores |-> sc]
  /\ \E F \in SUBSET EntityIds :
       \E twoRows \in SUBSET F :
         fMap = [e \in F |-> IF e \in twoRows THEN <<<<e>>, <<e + 10>>>>
                                              ELSE <<<<e>>>>]
  /\ mfNofVars \in NofVarsValues
  /\ mfKLimit \in 0..MaxK
  /\ mfI = 0
  /\ mfEntitiesInContext = <<>>
  /\ mfFilteredEntitiesInContext = <<>>
  /\ mfCurrentCid = 0 /\ mfCscore = 0
  /\ mfMap = <<>>
  /\ mfResult = <<>>
  /\ mfPc = "entry"

MFFrame == UNCHANGED <<ciVars, kwVars, aggVars, mvVars, ovVars, raVars,
      frVars, acVars, amVars, peVars, chVars, itVars>>

\* Lines 1427-1429 and 1443-1444.
MFEntry ==
  /\ mfPc = "entry"
  /\ MFFrame
  /\ IF Len(mfWep.cids) = 0 \/ DOMAIN fMap = {}
       THEN /\ mfPc' = "done"
            /\ UNCHANGED <<mfCurrentCid, mfCscore>>
       ELSE /\ mfPc' = "loop"
            /\ mfCurrentCid' = mfWep.cids[1]
            /\ mfCscore' = mfWep.scores[1]
  /\ UNCHANGED <<mfWep, fMap, mfNofVars, mfKLimit, mfI, mfEntitiesInContext,
                 mfFilteredEntitiesInContext, mfMap, mfResult>>

\* Lines 1448-1451 and 1493-1495: the filtered entities after the entity
\* eid is seen.
WithFiltered(fents, eid) ==
  IF eid \in DOMAIN fMap THEN Append(fents, eid) ELSE fents

\* Lines 1447-1453: a posting of the current context.
MFSameContext ==
  /\ mfPc = "loop"
  /\ MFFrame
  /\ mfI < Len(mfWep.cids)
  /\ mfWep.cids[mfI + 1] = mfCurrentCid
  /\ mfFilteredEntitiesInContext' =
       WithFiltered(mfFilteredEntitiesInContext, mfWep.eids[mfI + 1])
  /\ mfEntitiesInContext' = Append(mfEntitiesInContext, mfWep.eids[mfI + 1])
  /\ mfI' = mfI + 1
  /\ UNCHANGED <<mfWep, fMap, mfNofVars, mfKLimit, mfCurrentCid, mfCscore,
                 mfMap, mfResult, mfPc>>

\* The key whose first slot is drawn from all entities of the context.
UnfilteredKeyOf(j, fents, ents, nv) ==
  [k \in 1..nv |->
     IF k = 1 THEN ents[(j % Len(fents)) + 1]
     ELSE ents[(((j \div Len(fents)) \div Pow(Len(ents), k - 2))
                  % Len(ents)) + 1]]

\* Lines 1461-1471: the key number j; the first slot indexes the filtered
\* entities, the other slots all entities of the context.
FilterKeyOf(j, fents, ents, nv) ==
  [k \in 1..nv |->
     IF k = 1 THEN fents[(j % Len(fents)) + 1]
     ELSE ents[(((j \div Len(fents)) \div Pow(Len(ents), k - 2))
                  % Len(ents)) + 1]]

\* Lines 1457-1460: nofPossibilities.
NofPossibilities(fents, ents, nv) == Len(fents) * Pow(Len(ents), nv - 1)

\* Lines 1461-1487: the loop over j from the value j on.
RECURSIVE FilterCrossProductFrom(_, _, _, _, _, _, _, _)
FilterCrossProductFrom(m, j, fents, ents, nv, cid, sc, k) ==
  IF j >= NofPossibilities(fents, ents, nv) THEN m
  ELSE FilterCrossProductFrom(
         ScoreMapStep(m, FilterKeyOf(j, fents, ents, nv), sc, cid, k),
         j + 1, fents, ents, nv, cid, sc, k)

\* Lines 1455-1488 and 1498-1531: the map after the current context is
\* added, which happens only if the context has a filtered entity.
WithContext(m) ==
  IF Len(mfFilteredEntitiesInContext) > 0
    THEN FilterCrossProductFrom(m, 0, mfFilteredEntitiesInContext,
                                mfEntitiesInContext, mfNofVars,
                                mfCurrentCid, mfCscore, mfKLimit)
    ELSE m

\* Lines 1454-1496: the first posting of the next context.
MFNewContext ==
  /\ mfPc = "loop"
  /\ MFFrame
  /\ mfI < Len(mfWep.cids)
  /\ mfWep.cids[mfI + 1] # mfCurrentCid
  /\ mfMap' = WithContext(mfMap)
  /\ mfEntitiesInContext' = <<mfWep.eids[mfI + 1]>>
  /\ mfFilteredEntitiesInContext' = WithFiltered(<<>>, mfWep.eids[mfI + 1])
  /\ mfCurrentCid' = mfWep.cids[mfI + 1]
  /\ mfCscore' = mfWep.scores[mfI + 1]
  /\ mfI' = mfI + 1
  /\ UNCHANGED <<mfWep, fMap, mfNofVars, mfKLimit, mfResult, mfPc>>

\* Lines 1497-1531: the last context.
MFLastContext ==
  /\ mfPc = "loop"
  /\ MFFrame
  /\ mfI = Len(mfWep.cids)
  /\ mfMap' = WithContext(mfMap)
  /\ mfPc' = "output"
  /\ UNCHANGED <<mfWep, fMap, mfNofVars, mfKLimit, mfI, mfEntitiesInContext,
                 mfFilteredEntitiesInContext, mfCurrentCid, mfCscore,
                 mfResult>>

\* Lines 1538-1553: the rows pushed for the key and one element of its
\* ordered set, one row per row of the filter table of the key's first
\* entity.
FilterRows(key, cid, rscore) ==
  [f \in 1..Len(fMap[key[1]]) |->
     <<cid, rscore>> \o Tail(key) \o fMap[key[1]][f]]

\* Lines 1537-1554: the rows of the elements of desc from number q on.
RECURSIVE KeyRowsFrom(_, _, _, _)
KeyRowsFrom(key, desc, rscore, q) ==
  IF q > Len(desc) THEN <<>>
  ELSE FilterRows(key, desc[q][2], rscore)
         \o KeyRowsFrom(key, desc, rscore, q + 1)

\* Lines 1535-1555: the rows of the keys in the order o of the hash map,
\* from the key number p on.
RECURSIVE FilterMapRows(_, _, _)
FilterMapRows(m, o, p) ==
  IF p > Len(o) THEN <<>>
  ELSE KeyRowsFrom(o[p], StcDescending(m[o[p]].second), m[o[p]].first, 1)
         \o FilterMapRows(m, o, p + 1)

\* Lines 1533-1557.
MFOutput ==
  /\ mfPc = "output"
  /\ MFFrame
  /\ \E o \in Orders(DOMAIN mfMap) :
       mfResult' = mfResult \o FilterMapRows(mfMap, o, 1)
  /\ mfPc' = "done"
  /\ UNCHANGED <<mfWep, fMap, mfNofVars, mfKLimit, mfI, mfEntitiesInContext,
                 mfFilteredEntitiesInContext, mfCurrentCid, mfCscore, mfMap>>

MFNext ==
  \/ MFEntry
  \/ MFSameContext
  \/ MFNewContext
  \/ MFLastContext
  \/ MFOutput

InitMultVarsFilter ==
  /\ MFInit
  /\ CIIdle
  /\ KWIdle
  /\ AggIdle
  /\ MVIdle
  /\ OVIdle
  /\ RAIdle
  /\ FRIdle
  /\ ACIdle
  /\ AMIdle
  /\ PEIdle
  /\ CHIdle
  /\ ITIdle

SpecMultVarsFilter == InitMultVarsFilter /\ [][MFNext]_vars

\* ---- Claims on the filtering multi-variable aggregator

\* E_c: the entities that have a posting at the context c.
MFEntitiesOf(c) ==
  {mfWep.eids[p] : p \in {q \in DOMAIN mfWep.cids : mfWep.cids[q] = c}}

\* F_c x E_c^(nofVars-1): the tuples over the entities of the context c
\* whose first slot is an entity of the filter.
MFTuplesOf(c) ==
  {t \in [1..mfNofVars -> MFEntitiesOf(c)] : t[1] \in DOMAIN fMap}

\* The step that adds the current context to the map is about to happen.
MFContextEnds ==
  /\ mfPc = "loop"
  /\ mfI = Len(mfWep.cids) \/ mfWep.cids[mfI + 1] # mfCurrentCid

\* C14: the grouping tuples that a context c contributes to the map (the
\* keys it creates or whose count it raises) are exactly F_c x
\* E_c^(nofVars-1); hence the first slot is never an unfiltered entity, a
\* context without a filtered entity contributes nothing, and the keys of
\* the final map are the union of these sets over all contexts.
C14_FirstSlotFiltered ==
  [][/\ MFContextEnds =>
          {key \in DOMAIN mfMap' :
             \/ key \notin DOMAIN mfMap
             \/ mfMap'[key].first > mfMap[key].first}
            = MFTuplesOf(mfCurrentCid)
     /\ mfPc' = "done" =>
          DOMAIN mfMap' = UNION {MFTuplesOf(c) : c \in Range(mfWep.cids)}
    ]_vars

\* Two variables and the filter {1}: one context holds only the unfiltered
\* entity 2 and contributes nothing, another holds the entities 1 and 2 and
\* contributes the groups 1-1 and 1-2.
C14_Witness ==
  /\ mfPc = "done"
  /\ mfNofVars = 2
  /\ DOMAIN fMap = {1}
  /\ \E c \in Range(mfWep.cids) : MFEntitiesOf(c) = {2}
  /\ \E c \in Range(mfWep.cids) : MFEntitiesOf(c) = {1, 2}
  /\ DOMAIN mfMap = {<<1, 1>>, <<1, 2>>}
  /\ Len(mfResult) > 0

\* ------------------------------------------------------------------------
\* aggScoresAndTakeTopKContexts(vector<Row>& nonAggRes, size_t k,
\* vector<Row>& res) (FTSAlgorithms.cpp 654-713), for rows of width 4.
\* Column x of a row is the element x + 1 of the tuple.

\* The rows Init draws: columns 0, 1, 2 and 3.
RowValues == {0, 1} \X {1, 2} \X {0, 1} \X {0, 1}

\* The sequences over S of length at most len.
SeqsUpTo(S, len) == UNION {[1..m -> S] : m \in 0..len}

RAInit ==
  /\ nonAggRes \in SeqsUpTo(RowValues, MaxLen)
  /\ raK \in 0..MaxK
  /\ res = <<>>
  /\ contextsInResult = 0
  /\ raI = 0
  /\ raPc = "entry"

RAFrame == UNCHANGED <<ciVars, kwVars, aggVars, mvVars, ovVars, mfVars,
      frVars, acVars, amVars, peVars, chVars, itVars>>

\* Lines 664-673: the comparator of the sort, on (col 0, col 3, col 1).
RowLess(l, r) ==
  IF l[1] = r[1]
    THEN IF l[4] = r[4] THEN l[2] < r[2] ELSE l[4] < r[4]
    ELSE l[1] < r[1]

\* Lines 663-673: what std::sort, which is not stable, can leave in
\* nonAggRes: any arrangement of the rows that the comparator accepts.
Sorted(rows) ==
  {s \in [DOMAIN rows -> Range(rows)] :
     /\ BagOf(s) = BagOf(rows)
     /\ \A p, q \in DOMAIN s : p < q => ~RowLess(s[q], s[p])}

\* Lines 660-676.
RASort ==
  /\ raPc = "entry"
  /\ RAFrame
  /\ IF Len(nonAggRes) = 0
       THEN /\ raPc' = "done"
            /\ UNCHANGED <<nonAggRes, res, contextsInResult, raI>>
       ELSE /\ nonAggRes' \in Sorted(nonAggRes)
            /\ res' = <<nonAggRes'[1]>>
            /\ contextsInResult' = 1
            /\ raI' = 1
            /\ raPc' = "loop"
  /\ UNCHANGED raK

\* Lines 678-687: same.
Same(row, back) == row[1] = back[1] /\ row[4] = back[4]

\* Lines 688-692.
RASame ==
  /\ raPc = "loop"
  /\ RAFrame
  /\ raI < Len(nonAggRes)
  /\ Same(nonAggRes[raI + 1], res[Len(res)])
  /\ contextsInResult' = contextsInResult + 1
  /\ res' = IF contextsInResult' <= raK THEN Append(res, nonAggRes[raI + 1])
                                        ELSE res
  /\ raI' = raI + 1
  /\ UNCHANGED <<nonAggRes, raK, raPc>>

\* Lines 697-702: column 1 of the last min(contextsInResult, k) rows is
\* set to contextsInResult.
WithScores(rows, count, k) ==
  [j \in DOMAIN rows |->
     IF j > Len(rows) - MinOf(count, k)
       THEN [rows[j] EXCEPT ![2] = count]
       ELSE rows[j]]

\* Lines 693-707.
RAOther ==
  /\ raPc = "loop"
  /\ RAFrame
  /\ raI < Len(nonAggRes)
  /\ ~Same(nonAggRes[raI + 1], res[Len(res)])
  /\ res' = Append(WithScores(res, contextsInResult, raK),
                   nonAggRes[raI + 1])
  /\ contextsInResult' = 1
  /\ raI' = raI + 1
  /\ UNCHANGED <<nonAggRes, raK, raPc>>

\* Lines 677 and 710-712: the loop ends and the function returns.
RAReturn ==
  /\ raPc = "loop"
  /\ RAFrame
  /\ raI = Len(nonAggRes)
  /\ raPc' = "done"
  /\ UNCHANGED <<nonAggRes, raK, res, contextsInResult, raI>>

RANext ==
  \/ RASort
  \/ RASame
  \/ RAOther
  \/ RAReturn

InitRowAgg ==
  /\ RAInit
  /\ CIIdle
  /\ KWIdle
  /\ AggIdle
  /\ MVIdle
  /\ OVIdle
  /\ MFIdle
  /\ FRIdle
  /\ ACIdle
  /\ AMIdle
  /\ PEIdle
  /\ CHIdle
  /\ ITIdle

SpecRowAgg == InitRowAgg /\ [][RANext]_vars

\* ---- Claims on the row-based aggregator

\* The input rows that agree with the row on column 0 and on column 3.
GroupOf(row) == {p \in DOMAIN nonAggRes : Same(nonAggRes[p], row)}

\* C15: for k >= 1 the output holds, for each group of input rows that
\* agree on column 0 and on the columns from 3 on, exactly min(k, group
\* size) rows of that group, and column 1 of every output row is the size
\* of its group, for the last group in sort order as for the others.
C15_GroupSizeInColumnOne ==
  (raPc = "done" /\ raK >= 1) =>
    /\ \A p \in DOMAIN nonAggRes :
         Cardinality({r \in DOMAIN res : Same(res[r], nonAggRes[p])})
           = MinOf(raK, Cardinality(GroupOf(nonAggRes[p])))
    /\ \A r \in DOMAIN res :
         /\ \E p \in GroupOf(res[r]) : nonAggRes[p][3] = res[r][3]
         /\ res[r][2] = Cardinality(GroupOf(res[r]))

\* ------------------------------------------------------------------------
\* filterByRange(idRange, wepPreFilter) (FTSAlgorithms.cpp 18-57)

\* The word ids of the postings and the ends of the ranges.
RangeWordIds == {1, 2, 3}

FRInit ==
  /\ \E c \in SortedSeqs(ContextIds, MaxLen) :
       \E w \in [1..Len(c) -> RangeWordIds] :
         \E sc \in [1..Len(c) -> Scores] :
           wepPreFilter = [cids |-> c, wids |-> w, scores |-> sc]
  /\ idRange \in [first : RangeWordIds, last : RangeWordIds]
  /\ wepResult = [cids |-> <<>>, wids |-> <<>>, scores |-> <<>>]
  /\ nofResultElements = 0
  /\ frI = 0
  /\ frPc = "entry"

FRFrame == UNCHANGED <<ciVars, kwVars, aggVars, mvVars, ovVars, mfVars,
      raVars, acVars, amVars, peVars, chVars, itVars>>

\* vector::resize(m): the first m elements, new ones value-initialised.
ResizedTo(col, m) == [p \in 1..m |-> IF p <= Len(col) THEN col[p] ELSE 0]

\* Lines 25-30: the result columns get size() + 2 elements.
FRAllocate ==
  /\ frPc = "entry"
  /\ FRFrame
  /\ wepResult' = [cids |-> ResizedTo(<<>>, Len(wepPreFilter.cids) + 2),
                   scores |-> ResizedTo(<<>>, Len(wepPreFilter.cids) + 2),
                   wids |-> ResizedTo(<<>>, Len(wepPreFilter.cids) + 2)]
  /\ nofResultElements' = 0
  /\ frI' = 0
  /\ frPc' = "loop"
  /\ UNCHANGED <<wepPreFilter, idRange>>

\* The range without its last id.
InHalfOpenRange(wid, range) == wid >= range.first /\ wid < range.last

\* Lines 40-41: the test on the word id.
InRange(wid, range) == wid >= range.first /\ wid <= range.last

\* Lines 40-45: a posting inside the range is copied.
FRKeep ==
  /\ frPc = "loop"
  /\ FRFrame
  /\ frI < Len(wepPreFilter.wids)
  /\ InRange(wepPreFilter.wids[frI + 1], idRange)
  /\ wepResult' =
       [cids |-> [wepResult.cids EXCEPT ![nofResultElements + 1] =
                    wepPreFilter.cids[frI + 1]],
        scores |-> [wepResult.scores EXCEPT ![nofResultElements + 1] =
                      wepPreFilter.scores[frI + 1]],
        wids |-> [wepResult.wids EXCEPT ![nofResultElements + 1] =
                    wepPreFilter.wids[frI + 1]]]
  /\ nofResultElements' = nofResultElements + 1
  /\ frI' = frI + 1
  /\ UNCHANGED <<wepPreFilter, idRange, frPc>>

\* Lines 32 and 40-41: a posting outside the range is skipped.
FRSkip ==
  /\ frPc = "loop"
  /\ FRFrame
  /\ frI < Len(wepPreFilter.wids)
  /\ ~InRange(wepPreFilter.wids[frI + 1], idRange)
  /\ frI' = frI + 1
  /\ UNCHANGED <<wepPreFilter, idRange, wepResult, nofResultElements, frPc>>

\* Lines 48-56: the columns are cut to nofResultElements and returned.
FRReturn ==
  /\ frPc = "loop"
  /\ FRFrame
  /\ frI = Len(wepPreFilter.wids)
  /\ wepResult' = [cids |-> ResizedTo(wepResult.cids, nofResultElements),
                   scores |-> ResizedTo(wepResult.scores, nofResultElements),
                   wids |-> ResizedTo(wepResult.wids, nofResultElements)]
  /\ frPc' = "done"
  /\ UNCHANGED <<wepPreFilter, idRange, nofResultElements, frI>>

FRNext ==
  \/ FRAllocate
  \/ FRKeep
  \/ FRSkip
  \/ FRReturn

InitFilterByRange ==
  /\ FRInit
  /\ CIIdle
  /\ KWIdle
  /\ AggIdle
  /\ MVIdle
  /\ OVIdle
  /\ MFIdle
  /\ RAIdle
  /\ ACIdle
  /\ AMIdle
  /\ PEIdle
  /\ CHIdle
  /\ ITIdle

SpecFilterByRange == InitFilterByRange /\ [][FRNext]_vars

\* ---- Claims on filterByRange

\* The position p of the input holds a word id of the range.
KeptAt(p) ==
  /\ idRange.first <= wepPreFilter.wids[p]
  /\ wepPreFilter.wids[p] <= idRange.last

\* The positions of the input rows inside the range, in ascending order.
KeptPositions ==
  SelectSeq([p \in 1..Len(wepPreFilter.wids) |-> p], KeptAt)

\* C16: the result holds exactly the rows of the input whose word id lies
\* in [first, last], in their original order, each with its own cid, wid
\* and score; equal rows stay separate rows.
C16_FilterKeepsRowsInOrder ==
  frPc = "done" =>
    /\ wepResult.cids = [r \in DOMAIN KeptPositions |->
                           wepPreFilter.cids[KeptPositions[r]]]
    /\ wepResult.wids = [r \in DOMAIN KeptPositions |->
                           wepPreFilter.wids[KeptPositions[r]]]
    /\ wepResult.scores = [r \in DOMAIN KeptPositions |->
                             wepPreFilter.scores[KeptPositions[r]]]

\* Three rows: the first lies outside the range, the other two are equal
\* rows inside it with the word id range.last, and both are in the result.
C16_Witness ==
  /\ frPc = "done"
  /\ Len(wepPreFilter.cids) = 3
  /\ wepPreFilter.wids[1] < idRange.first
  /\ wepPreFilter.wids[2] = idRange.last
  /\ wepPreFilter.cids[2] = wepPreFilter.cids[3]
  /\ wepPreFilter.wids[2] = wepPreFilter.wids[3]
  /\ wepPreFilter.scores[2] = wepPreFilter.scores[3]
  /\ Len(wepResult.cids) = 2

\* ------------------------------------------------------------------------
\* appendCrossProduct(cids, eids, scores, from, toExclusive, subRes1,
\* subRes2, res) (FTSAlgorithms.cpp 1154-1187)
\*
\* The scores are only copied.  Init gives every posting a score that names
\* its position, so that a row shows which posting it was built from.

PostingScore(p) == 30 + p

\* Rows that res can hold before the call.
EarlierRows == {<<>>, <<<<9, 39, 9, 9, 9>>>>}

ACInit ==
  /\ \E c \in SortedSeqs(ContextIds, MaxLen) :
       \E e \in [1..Len(c) -> EntityIds] :
         acWep = [cids |-> c, eids |-> e,
                  scores |-> [p \in 1..Len(c) |-> PostingScore(p)]]
  /\ from \in 0..Len(acWep.cids)
  /\ toExclusive \in from..Len(acWep.cids)
  /\ \A p \in (from + 1)..toExclusive : acWep.cids[p] = acWep.cids[from + 1]
  /\ subRes1 \in SUBSET EntityIds
  /\ subRes2 \in SUBSET EntityIds
  /\ acRes \in EarlierRows
  /\ acResAtEntry = acRes
  /\ contextSubRes1 = <<>> /\ contextSubRes2 = <<>>
  /\ done = {}
  /\ acI = from
  /\ acPc = "collect"

ACFrame == UNCHANGED <<ciVars, kwVars, aggVars, mvVars, ovVars, mfVars,
      raVars, frVars, amVars, peVars, chVars, itVars>>

\* No entity counts as seen.
NeverSeen(eid, seen) == FALSE

\* Line 1167: done.count(eids[i]).
Seen(eid, seen) == eid \in seen

\* Lines 1167-1169: a posting of an entity that the run has shown before.
ACSkipSeen ==
  /\ acPc = "collect"
  /\ ACFrame
  /\ acI < toExclusive
  /\ Seen(acWep.eids[acI + 1], done)
  /\ acI' = acI + 1
  /\ UNCHANGED <<acWep, from, toExclusive, subRes1, subRes2, acRes,
                 acResAtEntry, contextSubRes1, contextSubRes2, done, acPc>>

\* Lines 1170-1176: the first posting of an entity in the run.
ACCollect ==
  /\ acPc = "collect"
  /\ ACFrame
  /\ acI < toExclusive
  /\ ~Seen(acWep.eids[acI + 1], done)
  /\ done' = done \cup {acWep.eids[acI + 1]}
  /\ contextSubRes1' = IF acWep.eids[acI + 1] \in subRes1
                         THEN Append(contextSubRes1, acWep.eids[acI + 1])
                         ELSE contextSubRes1
  /\ contextSubRes2' = IF acWep.eids[acI + 1] \in subRes2
                         THEN Append(contextSubRes2, acWep.eids[acI + 1])
                         ELSE contextSubRes2
  /\ acI' = acI + 1
  /\ UNCHANGED <<acWep, from, toExclusive, subRes1, subRes2, acRes,
                 acResAtEntry, acPc>>

\* Lines 1166 and 1178: the first loop ends, the second starts at from.
ACCollected ==
  /\ acPc = "collect"
  /\ ACFrame
  /\ acI >= toExclusive
  /\ acI' = from
  /\ acPc' = "append"
  /\ UNCHANGED <<acWep, from, toExclusive, subRes1, subRes2, acRes,
                 acResAtEntry, contextSubRes1, contextSubRes2, done>>

\* Lines 1179-1185: the rows of the posting i, j outer and k inner.
RowsOfPosting(i) ==
  [x \in 1..(Len(contextSubRes1) * Len(contextSubRes2)) |->
     <<acWep.eids[i + 1], acWep.scores[i + 1], acWep.cids[i + 1],
       contextSubRes1[((x - 1) \div Len(contextSubRes2)) + 1],
       contextSubRes2[((x - 1) % Len(contextSubRes2)) + 1]>>]

\* Lines 1178-1186, one pass of the loop over the postings.
ACAppend ==
  /\ acPc = "append"
  /\ ACFrame
  /\ acI < toExclusive
  /\ acRes' = acRes \o RowsOfPosting(acI)
  /\ acI' = acI + 1
  /\ UNCHANGED <<acWep, from, toExclusive, subRes1, subRes2, acResAtEntry,
                 contextSubRes1, contextSubRes2, done, acPc>>

\* Lines 1178 and 1187.
ACReturn ==
  /\ acPc = "append"
  /\ ACFrame
  /\ acI >= toExclusive
  /\ acPc' = "done"
  /\ UNCHANGED <<acWep, from, toExclusive, subRes1, subRes2, acRes,
                 acResAtEntry, contextSubRes1, contextSubRes2, done, acI>>

ACNext ==
  \/ ACSkipSeen
  \/ ACCollect
  \/ ACCollected
  \/ ACAppend
  \/ ACReturn

InitAppendCrossProduct ==
  /\ ACInit
  /\ CIIdle
  /\ KWIdle
  /\ AggIdle
  /\ MVIdle
  /\ OVIdle
  /\ MFIdle
  /\ RAIdle
  /\ FRIdle
  /\ AMIdle
  /\ PEIdle
  /\ CHIdle
  /\ ITIdle

SpecAppendCrossProduct == InitAppendCrossProduct /\ [][ACNext]_vars

\* ---- Claims on appendCrossProduct

\* The distinct entities of the run [from, toExclusive) that lie in S.
RunEntitiesIn(S) ==
  {acWep.eids[p] : p \in (from + 1)..toExclusive} \cap S

\* The rows that the call appended.
AppendedRows == SubSeq(acRes, Len(acResAtEntry) + 1, Len(acRes))

\* C20: the call keeps the rows res held and appends exactly one row
\* (eid_i, score_i, cid_i, a, b) for every posting i of the run and every
\* pair (a, b) of distinct entities of the run with a in subRes1 and b in
\* subRes2; an entity that occurs several times in the run counts once, so
\* (to - from) * |A'| * |B'| rows are appended.
C20_CrossProductOfDistinctEntities ==
  acPc = "done" =>
    /\ SubSeq(acRes, 1, Len(acResAtEntry)) = acResAtEntry
    /\ Len(AppendedRows) =
         (toExclusive - from) * Cardinality(RunEntitiesIn(subRes1))
           * Cardinality(RunEntitiesIn(subRes2))
    /\ \A p \in (from + 1)..toExclusive :
         \A a \in RunEntitiesIn(subRes1) :
           \A b \in RunEntitiesIn(subRes2) :
             Count(AppendedRows,
                   <<acWep.eids[p], acWep.scores[p], acWep.cids[p], a, b>>)
               = 1

\* A run of three postings in which one entity occurs twice; both entities
\* of the run lie in subRes1 and one of them in subRes2, so 3 * 2 * 1 rows
\* are appended behind the row that res held.
C20_Witness ==
  /\ acPc = "done"
  /\ toExclusive - from = 3
  /\ Cardinality(RunEntitiesIn(subRes1)) = 2
  /\ Cardinality(RunEntitiesIn(subRes2)) = 1
  /\ Len(acResAtEntry) = 1
  /\ Len(acRes) = 7

\* ------------------------------------------------------------------------
\* appendCrossProduct(cids, eids, scores, from, toExclusive, subResMaps,
\* res) (FTSAlgorithms.cpp 1190-1241)
\*
\* The rows of the maps are only copied.  Init gives every row of every map
\* one column whose value names the map, the entity and the row.

\* The numbers of maps handed to the call.
MapCounts == {0, 1, 2}

\* The numbers of rows a map can hold for the entity e; 0: no entry.
RowCounts(e) == IF e = 1 THEN {0, 1, 2} ELSE {0, 1}

MapRow(j, e, r) == <<100 * j + 10 * e + r>>

AMInit ==
  /\ \E c \in SortedSeqs(ContextIds, MaxLen) :
       \E e \in [1..Len(c) -> EntityIds] :
         amWep = [cids |-> c, eids |-> e,
                  scores |-> [p \in 1..Len(c) |-> PostingScore(p)]]
  /\ amFrom \in 0..Len(amWep.cids)
  /\ amToExclusive \in amFrom..Len(amWep.cids)
  /\ \A p \in (amFrom + 1)..amToExclusive :
       amWep.cids[p] = amWep.cids[amFrom + 1]
  /\ \E m \in MapCounts :
       \E cnt \in [1..m -> [EntityIds -> {0, 1, 2}]] :
         /\ \A j \in 1..m : \A e \in EntityIds : cnt[j][e] \in RowCounts(e)
         /\ subResMaps =
              [j \in 1..m |->
                 [e \in {x \in EntityIds : cnt[j][x] > 0} |->
                    [r \in 1..cnt[j][e] |-> MapRow(j, e, r)]]]
  /\ amRes \in EarlierRows
  /\ amResAtEntry = amRes
  /\ subResMatches = [j \in 1..Len(subResMaps) |-> <<>>]
  /\ distinctEids = {}
  /\ amI = amFrom
  /\ amPc = "gather"

AMFrame == UNCHANGED <<ciVars, kwVars, aggVars, mvVars, ovVars, mfVars,
      raVars, frVars, acVars, peVars, chVars, itVars>>

\* Lines 1198-1201: a posting of an entity that the run has shown before.
AMSkipSeen ==
  /\ amPc = "gather"
  /\ AMFrame
  /\ amI < amToExclusive
  /\ amWep.eids[amI + 1] \in distinctEids
  /\ amI' = amI + 1
  /\ UNCHANGED <<amWep, amFrom, amToExclusive, subResMaps, amRes,
                 amResAtEntry, subResMatches, distinctEids, amPc>>

\* Lines 1202-1210: the first posting of an entity in the run; every map
\* that has the entity adds its rows.
AMGather ==
  /\ amPc = "gather"
  /\ AMFrame
  /\ amI < amToExclusive
  /\ amWep.eids[amI + 1] \notin distinctEids
  /\ distinctEids' = distinctEids \cup {amWep.eids[amI + 1]}
  /\ subResMatches' =
       [j \in 1..Len(subResMaps) |->
          IF amWep.eids[amI + 1] \in DOMAIN subResMaps[j]
            THEN subResMatches[j] \o subResMaps[j][amWep.eids[amI + 1]]
            ELSE subResMatches[j]]
  /\ amI' = amI + 1
  /\ UNCHANGED <<amWep, amFrom, amToExclusive, subResMaps, amRes,
                 amResAtEntry, amPc>>

\* Lines 1198 and 1211: the first loop ends, the second starts at from.
AMGathered ==
  /\ amPc = "gather"
  /\ AMFrame
  /\ amI >= amToExclusive
  /\ amI' = amFrom
  /\ amPc' = "append"
  /\ UNCHANGED <<amWep, amFrom, amToExclusive, subResMaps, amRes,
                 amResAtEntry, subResMatches, distinctEids>>

\* Lines 1221-1224: nofResultRows, the product of the sizes of the first j
\* entries of subResMatches.
RECURSIVE ProductOfSizes(_, _)
ProductOfSizes(matches, j) ==
  IF j = 0 THEN 1 ELSE ProductOfSizes(matches, j - 1) * Len(matches[j])

\* The index without the divisions by the sizes of the maps before j.
RowIndexModOnly(row, j, matches) == row % Len(matches[j + 1])

\* Lines 1230-1234: index, for the row number row and the map j (0-based).
RowIndex(row, j, matches) ==
  (row \div ProductOfSizes(matches, j)) % Len(matches[j + 1])

\* Lines 1227-1238: the row number row of the posting i; the maps from j on (0-based)
\* add their columns.
RECURSIVE ColumnsFrom(_, _, _)
ColumnsFrom(row, j, matches) ==
  IF j >= Len(matches) THEN <<>>
  ELSE matches[j + 1][RowIndex(row, j, matches) + 1]
         \o ColumnsFrom(row, j + 1, matches)

\* Lines 1226-1239: the rows of the posting i.
MapRowsOfPosting(i) ==
  [x \in 1..ProductOfSizes(subResMatches, Len(subResMatches)) |->
     <<amWep.eids[i + 1], amWep.scores[i + 1], amWep.cids[i + 1]>>
       \o ColumnsFrom(x - 1, 0, subResMatches)]

\* Lines 1211-1240, one pass of the loop over the postings.
AMAppend ==
  /\ amPc = "append"
  /\ AMFrame
  /\ amI < amToExclusive
  /\ amRes' = amRes \o MapRowsOfPosting(amI)
  /\ amI' = amI + 1
  /\ UNCHANGED <<amWep, amFrom, amToExclusive, subResMaps, amResAtEntry,
                 subResMatches, distinctEids, amPc>>

\* Lines 1211 and 1241.
AMReturn ==
  /\ amPc = "append"
  /\ AMFrame
  /\ amI >= amToExclusive
  /\ amPc' = "done"
  /\ UNCHANGED <<amWep, amFrom, amToExclusive, subResMaps, amRes,
                 amResAtEntry, subResMatches, distinctEids, amI>>

AMNext ==
  \/ AMSkipSeen
  \/ AMGather
  \/ AMGathered
  \/ AMAppend
  \/ AMReturn

InitAppendCrossProductMaps ==
  /\ AMInit
  /\ CIIdle
  /\ KWIdle
  /\ AggIdle
  /\ MVIdle
  /\ OVIdle
  /\ MFIdle
  /\ RAIdle
  /\ FRIdle
  /\ ACIdle
  /\ PEIdle
  /\ CHIdle
  /\ ITIdle

SpecAppendCrossProductMaps == InitAppendCrossProductMaps /\ [][AMNext]_vars

\* ---- Claims on appendCrossProduct with maps

\* The rows the map j holds for the distinct entities of the run.
GatheredRows(j) ==
  UNION {Range(subResMaps[j][e]) :
           e \in {amWep.eids[p] : p \in (amFrom + 1)..amToExclusive}
                   \cap DOMAIN subResMaps[j]}

\* The combinations of one gathered row per map.
MapCombinations ==
  {c \in [1..Len(subResMaps) -> UNION {GatheredRows(j) :
                                         j \in 1..Len(subResMaps)}] :
     \A j \in 1..Len(subResMaps) : c[j] \in GatheredRows(j)}

\* The rows that the call appended.
AMAppendedRows == SubSeq(amRes, Len(amResAtEntry) + 1, Len(amRes))

\* C21: the call keeps the rows res held and appends, for every posting i
\* of the run, exactly one row for every combination of one gathered row
\* per map, the row being (eid_i, score_i, cid_i) followed by the columns of
\* the combination's rows in the order of the maps; nothing else is
\* appended, and nothing at all when some map has no row for the run.
C21_OneRowPerCombination ==
  amPc = "done" =>
    /\ SubSeq(amRes, 1, Len(amResAtEntry)) = amResAtEntry
    /\ Len(AMAppendedRows) =
         (amToExclusive - amFrom) * Cardinality(MapCombinations)
    /\ \A p \in (amFrom + 1)..amToExclusive :
         \A c \in MapCombinations :
           Count(AMAppendedRows,
                 <<amWep.eids[p], amWep.scores[p], amWep.cids[p]>>
                   \o [j \in 1..Len(subResMaps) |-> c[j][1]]) = 1

\* Two maps with two gathered rows each and a run of two postings: four
\* combinations per posting, eight rows behind the row that res held.
C21_Witness ==
  /\ amPc = "done"
  /\ Len(subResMaps) = 2
  /\ amToExclusive - amFrom = 2
  /\ Cardinality(GatheredRows(1)) = 2
  /\ Cardinality(GatheredRows(2)) = 2
  /\ Len(amResAtEntry) = 1
  /\ Len(amRes) = 9

\* C22: an aggregator leaves the rows that the caller's output table holds
\* at the call unchanged and places its own rows behind them, on the k = 1
\* path as on the k > 1 path.
C22_ExistingRowsKept ==
  aggPc = "done" =>
    /\ Len(dynResult) >= Len(EarlierTable)
    /\ SubSeq(dynResult, 1, Len(EarlierTable)) = EarlierTable


\* ------------------------------------------------------------------------
\* The entry of a call (FTSAlgorithms.cpp 18-21, 141-143, 375-381, 592-593,
\* 868-870, 886-887): what a function checks before it reads its input.
\*
\* peOutcome is one of
\*   "contractError"  an AD_CHECK failed and threw,
\*   "returnsEmpty"   the function returned without reading an element,
\*   "readsInput"     the function went on to read elements of its input,
\*   "crash"          the process ended on a read outside a container.
\* A read outside a container is undefined: the build may crash or go on
\* with whatever the read gave, but no AD_CHECK is involved.

ColumnSizes == {0, 1, 2}

ListCounts == {0, 1, 2}

Callees == {"filterByRange", "crossIntersect", "crossIntersectKWay",
            "aggScoresAndTakeTopKContexts",
            "multVarsAggScoresAndTakeTopKContexts"}

OutOfRangeOutcomes == {"crash", "returnsEmpty", "readsInput"}

PEInit ==
  /\ peCallee \in Callees
  /\ peSizes \in [cids : ColumnSizes, eids : ColumnSizes,
                  scores : ColumnSizes, wids : ColumnSizes]
  /\ peNofLists \in ListCounts
  /\ peOutcome = "none"
  /\ pePc = "entry"

PEFrame == UNCHANGED <<ciVars, kwVars, aggVars, mvVars, ovVars, mfVars,
      raVars, frVars, acVars, amVars, chVars, itVars>>

\* Lines 18-21: both AD_CHECKs of filterByRange, then the loop.
PEFilterByRange ==
  /\ pePc = "entry" /\ peCallee = "filterByRange"
  /\ PEFrame
  /\ peOutcome' =
       IF \/ peSizes.cids # peSizes.wids
          \/ peSizes.cids # peSizes.scores
       THEN "contractError"
       ELSE IF peSizes.wids = 0 THEN "returnsEmpty" ELSE "readsInput"
  /\ pePc' = "done"
  /\ UNCHANGED <<peCallee, peSizes, peNofLists>>

\* Lines 121-143: crossIntersect checks nothing but emptiness of the cids
\* (peSizes describes matchingContextsWep; the block list is not empty).
PECrossIntersect ==
  /\ pePc = "entry" /\ peCallee = "crossIntersect"
  /\ PEFrame
  /\ peOutcome' = IF peSizes.cids = 0 THEN "returnsEmpty" ELSE "readsInput"
  /\ pePc' = "done"
  /\ UNCHANGED <<peCallee, peSizes, peNofLists>>

\* Lines 375-381: k = wepVecs.size(); wepVecs[k - 1] is read unchecked, with
\* k = 0 this is a read outside the vector (peSizes describes every list).
PECrossIntersectKWay ==
  /\ pePc = "entry" /\ peCallee = "crossIntersectKWay"
  /\ PEFrame
  /\ IF peNofLists = 0
     THEN peOutcome' \in OutOfRangeOutcomes
     ELSE peOutcome' =
            IF peSizes.cids = 0 THEN "returnsEmpty" ELSE "readsInput"
  /\ pePc' = "done"
  /\ UNCHANGED <<peCallee, peSizes, peNofLists>>

\* Lines 590-593: the AD_CHECK_EQs of aggScoresAndTakeTopKContexts(wep, k)
\* compare eids and scores with cids; the word column is not compared.
PEAggScores ==
  /\ pePc = "entry" /\ peCallee = "aggScoresAndTakeTopKContexts"
  /\ PEFrame
  /\ peOutcome' =
       IF \/ peSizes.cids # peSizes.eids
          \/ peSizes.cids # peSizes.scores
       THEN "contractError"
       ELSE IF peSizes.cids = 0 THEN "returnsEmpty" ELSE "readsInput"
  /\ pePc' = "done"
  /\ UNCHANGED <<peCallee, peSizes, peNofLists>>

\* Lines 863-887: multVarsAggScoresAndTakeTopKContexts returns on empty
\* cids and then reads cids[0] and scores[0]; no size is compared.
PEMultVarsAgg ==
  /\ pePc = "entry" /\ peCallee = "multVarsAggScoresAndTakeTopKContexts"
  /\ PEFrame
  /\ IF peSizes.cids = 0
     THEN peOutcome' = "returnsEmpty"
     ELSE IF peSizes.scores = 0
          THEN peOutcome' \in OutOfRangeOutcomes
          ELSE peOutcome' = "readsInput"
  /\ pePc' = "done"
  /\ UNCHANGED <<peCallee, peSizes, peNofLists>>

PENext ==
  \/ PEFilterByRange
  \/ PECrossIntersect
  \/ PECrossIntersectKWay
  \/ PEAggScores
  \/ PEMultVarsAgg

InitCallEntry ==
  /\ PEInit
  /\ CIIdle
  /\ KWIdle
  /\ AggIdle
  /\ MVIdle
  /\ OVIdle
  /\ MFIdle
  /\ RAIdle
  /\ FRIdle
  /\ ACIdle
  /\ AMIdle
  /\ CHIdle
  /\ ITIdle

SpecCallEntry == InitCallEntry /\ [][PENext]_vars

\* ---- Claims on the entry of a call

\* The precondition of the function called: columns of equal size (the
\* word column where the function has one), at least one list for a k-way
\* intersection.
PreconditionHolds ==
  CASE peCallee = "filterByRange" ->
         peSizes.cids = peSizes.wids /\ peSizes.cids = peSizes.scores
    [] peCallee = "crossIntersect" ->
         peSizes.cids = peSizes.wids
    [] peCallee = "crossIntersectKWay" ->
         /\ peNofLists >= 1
         /\ peSizes.cids = peSizes.wids
         /\ peSizes.cids = peSizes.scores
    [] peCallee = "aggScoresAndTakeTopKContexts" ->
         /\ peSizes.cids = peSizes.eids
         /\ peSizes.cids = peSizes.scores
         /\ peSizes.cids = peSizes.wids
    [] peCallee = "multVarsAggScoresAndTakeTopKContexts" ->
         peSizes.cids = peSizes.eids /\ peSizes.cids = peSizes.scores
    [] OTHER -> TRUE

\* C23: a call whose input violates the precondition ends in a contract
\* error at its entry, before an element of the input is read.
C23_ContractErrorAtEntry ==
  (pePc = "done" /\ ~PreconditionHolds) => peOutcome = "contractError"


\* ---- Claims on empty inputs

\* Some list of the k-way call is empty.
SomeListEmpty == \E l \in 0..(K - 1) : ListSize(l) = 0

MaxCalls == 5

CancellationModes == {"ENABLED", "NO_WATCH_DOG"}

CancelReasons == {"MANUAL", "TIMEOUT"}

\* detail::isCancelled(state)
IsCancelled(state) == state \in CancelReasons

CHInit ==
  /\ cancellationState_ = "NOT_CANCELLED"
  /\ chMode \in CancellationModes
  /\ chWatchDogRunning = FALSE
  /\ chLastOp = "none"
  /\ chThrew = FALSE
  /\ chCalls = 0
  /\ chPc = "live"

CHFrame == UNCHANGED <<ciVars, kwVars, aggVars, mvVars, ovVars, mfVars,
      raVars, frVars, acVars, amVars, peVars, itVars>>

\* cancel(reason): the handle takes the reason.  What a second cancel with
\* another reason does is not shown by the tests; both outcomes are kept.
Cancel ==
  /\ chPc = "live" /\ chCalls < MaxCalls
  /\ CHFrame
  /\ \E reason \in CancelReasons :
       IF IsCancelled(cancellationState_)
         THEN cancellationState_' \in {cancellationState_, reason}
         ELSE cancellationState_' = reason
  /\ chLastOp' = "cancel"
  /\ chThrew' = FALSE
  /\ chCalls' = chCalls + 1
  /\ UNCHANGED <<chMode, chWatchDogRunning, chPc>>

\* startWatchDog(): starts the thread; a no-op without watch dog.
StartWatchDog ==
  /\ chPc = "live" /\ chCalls < MaxCalls
  /\ CHFrame
  /\ ~chWatchDogRunning
  /\ chWatchDogRunning' = (chMode = "ENABLED")
  /\ chLastOp' = "startWatchDog"
  /\ chThrew' = FALSE
  /\ chCalls' = chCalls + 1
  /\ UNCHANGED <<cancellationState_, chMode, chPc>>

TickOverwrites(state) ==
  IF state = "NOT_CANCELLED" THEN "WAITING_FOR_CHECK"
  ELSE "CHECK_WINDOW_MISSED"

\* The state after one round of the watch dog: NOT_CANCELLED becomes
\* WAITING_FOR_CHECK, and that becomes CHECK_WINDOW_MISSED one interval
\* later; a cancelled state is left alone.
AfterTick(state) ==
  IF state = "NOT_CANCELLED" THEN "WAITING_FOR_CHECK"
  ELSE IF state = "WAITING_FOR_CHECK" THEN "CHECK_WINDOW_MISSED"
  ELSE state

WatchDogTick ==
  /\ chPc = "live" /\ chCalls < MaxCalls
  /\ CHFrame
  /\ chWatchDogRunning
  /\ cancellationState_' = AfterTick(cancellationState_)
  /\ chLastOp' = "tick"
  /\ chThrew' = FALSE
  /\ chCalls' = chCalls + 1
  /\ UNCHANGED <<chMode, chWatchDogRunning, chPc>>

\* The state after pleasing the watch dog: the two watch dog states go
\* back to NOT_CANCELLED, a cancelled state is kept.
AfterReset(state) ==
  IF state \in {"WAITING_FOR_CHECK", "CHECK_WINDOW_MISSED"}
    THEN "NOT_CANCELLED"
    ELSE state

\* resetWatchDogState(): a no-op without watch dog.
ResetWatchDogState ==
  /\ chPc = "live" /\ chCalls < MaxCalls
  /\ CHFrame
  /\ cancellationState_' =
       IF chMode = "ENABLED" THEN AfterReset(cancellationState_)
                             ELSE cancellationState_
  /\ chLastOp' = "resetWatchDogState"
  /\ chThrew' = FALSE
  /\ chCalls' = chCalls + 1
  /\ UNCHANGED <<chMode, chWatchDogRunning, chPc>>

\* throwIfCancelled(detail): throws when cancelled, else pleases the watch
\* dog.
ThrowIfCancelled ==
  /\ chPc = "live" /\ chCalls < MaxCalls
  /\ CHFrame
  /\ chThrew' = IsCancelled(cancellationState_)
  /\ cancellationState_' =
       IF chMode = "ENABLED" THEN AfterReset(cancellationState_)
                             ELSE cancellationState_
  /\ chLastOp' = "throwIfCancelled"
  /\ chCalls' = chCalls + 1
  /\ UNCHANGED <<chMode, chWatchDogRunning, chPc>>

CHNext ==
  \/ Cancel
  \/ StartWatchDog
  \/ WatchDogTick
  \/ ResetWatchDogState
  \/ ThrowIfCancelled

InitCancellationHandle ==
  /\ CHInit
  /\ CIIdle
  /\ KWIdle
  /\ AggIdle
  /\ MVIdle
  /\ OVIdle
  /\ MFIdle
  /\ RAIdle
  /\ FRIdle
  /\ ACIdle
  /\ AMIdle
  /\ PEIdle
  /\ ITIdle

SpecCancellationHandle == InitCancellationHandle /\ [][CHNext]_vars

\* ---- Claims on the CancellationHandle

\* C25: a watch dog tick, a resetWatchDogState call or a throwIfCancelled
\* call on a handle whose state is MANUAL or TIMEOUT leaves the state as it
\* is, and the throwIfCancelled call throws; a throwIfCancelled call that
\* changes the state found WAITING_FOR_CHECK or CHECK_WINDOW_MISSED, sets
\* NOT_CANCELLED and does not throw.
C25_CancelledStateIsFinal ==
  [][/\ (/\ IsCancelled(cancellationState_)
         /\ chLastOp' \in {"tick", "resetWatchDogState", "throwIfCancelled"})
        => /\ cancellationState_' = cancellationState_
           /\ chLastOp' = "throwIfCancelled" => chThrew'
     /\ (/\ chLastOp' = "throwIfCancelled"
         /\ cancellationState_' # cancellationState_)
        => /\ cancellationState_ \in {"WAITING_FOR_CHECK",
                                       "CHECK_WINDOW_MISSED"}
           /\ cancellationState_' = "NOT_CANCELLED"
           /\ ~chThrew']_vars

\* A handle with a running watch dog that was cancelled manually, then
\* ticked, and whose throwIfCancelled threw.
C25_Witness ==
  /\ cancellationState_ = "MANUAL"
  /\ chWatchDogRunning
  /\ chLastOp = "throwIfCancelled"
  /\ chThrew
  /\ chCalls = 4


\* ---- Claims on the indices crossIntersect reads at

\* C26: whenever the run-walking loop of crossIntersect is about to read
\* matchingContextsWep.cids[i + k] (line 176), i + k is smaller than the
\* length of that list, and no read outside the list has happened.
C26_ReadsInsideLeftList ==
  /\ ciPc = "run" => ciI + ciK < LSize
  /\ ~ciOutOfRange


\* ---- Claims on the passes of the round-robin loop

\* The sum of the cursors of all lists.
RECURSIVE CursorSum(_)
CursorSum(ix) ==
  IF ix = <<>> THEN 0 ELSE Head(ix) + CursorSum(Tail(ix))

\* The list being visited has no cid left, from its cursor on, that is
\* not below the current context.
NoneLeft ==
  \A x \in nextIndices[currentList + 1]..(ListSize(currentList) - 1) :
    ListCid(currentList, x) < currentContext

\* One pass of the loop either moves a cursor on, writes rows, or leaves the
\* loop; it writes rows only for a context that has no row yet; and it
\* leaves the loop when the list visited has nothing left.
PassMakesProgress ==
  kwPc = "loop" =>
    /\ \/ CursorSum(nextIndices') > CursorSum(nextIndices)
       \/ n' > n
       \/ kwPc' = "done"
    /\ n' > n =>
         \A r \in 1..n : kwResult.cids[r] # currentContext
    /\ NoneLeft => kwPc' = "done"

\* C27: on k >= 1 lists with non-decreasing cids the round-robin loop ends;
\* every pass advances a cursor, writes rows or leaves the loop, no pass
\* writes a context that was written before, and the loop is left as soon
\* as the list visited has no cid >= currentContext left.
C27_RoundRobinTerminates ==
  /\ <>(kwPc = "done")
  /\ [][PassMakesProgress]_vars

\* Three lists with a common context that is not the first of the last
\* list: the loop wrote a row after passes that only moved cursors.
C27_Witness ==
  /\ kwPc = "done"
  /\ K = 3
  /\ n >= 1
  /\ ListSize(2) >= 2
  /\ kwResult.cids[1] # ListCid(2, 0)


\* ---- Claims on the size of the result columns

\* The contexts of the rows written so far.
WrittenContexts == {kwResult.cids[r] : r \in 1..n}

\* C28: while the loop of crossIntersectKWay runs and when it has ended,
\* the number n of rows written is at most the size the result columns
\* were given at entry (the minimum list length without the entity column,
\* the length of lastListEids with it), so every write was inside the
\* columns, and the number of distinct contexts written is at most the
\* minimum list length.
C28_WritesInsideResult ==
  (kwPc = "loop" \/ (kwPc = "done" /\ nextIndices # <<>>)) =>
    /\ n <= MinSize
    /\ kwPc = "loop" => /\ Len(kwResult.cids) = MinSize
                        /\ Len(kwResult.scores) = MinSize
                        /\ n <= Len(kwResult.cids)
    /\ Cardinality(WrittenContexts) <= Min({ListSize(l) : l \in 0..(K - 1)})

\* With the entity column: the last list is longer than the first, and as
\* many rows were written as lastListEids has, more than the minimum list
\* length.
C28_Witness ==
  /\ kwPc = "done"
  /\ EntityMode
  /\ K >= 2
  /\ n = Len(lastListEids)
  /\ n > Min({ListSize(l) : l \in 0..(K - 1)})


\* ------------------------------------------------------------------------
\* multVarsFilterAggScoresAndTakeTopKContexts(cids, eids, scores, fSet,
\* nofVars, kLimit, dynResult) (FTSAlgorithms.cpp 1614-1746)
\*
\* Lines 1618-1722 are lines 1427-1530 of the fMap variant with fSet.count
\* in the place of fMap.contains; the machine of the fMap variant runs them
\* with fSet = DOMAIN fMap.  Init gives fMap the map that sends each entity
\* of the set to the single row <<e>>, the map the set stands for.

MSInit ==
  /\ \E c \in SortedSeqs(ContextIds, MaxLen) :
       \E e \in [1..Len(c) -> EntityIds] :
         \E sc \in [1..Len(c) -> Scores] :
           mfWep = [cids |-> c, eids |-> e, scores |-> sc]
  /\ \E S \in SUBSET EntityIds : fMap = [e \in S |-> <<<<e>>>>]
  /\ mfNofVars \in NofVarsValues
  /\ mfKLimit \in 0..MaxK
  /\ mfI = 0
  /\ mfEntitiesInContext = <<>>
  /\ mfFilteredEntitiesInContext = <<>>
  /\ mfCurrentCid = 0 /\ mfCscore = 0
  /\ mfMap = <<>>
  /\ mfResult = <<>>
  /\ mfPc = "entry"

\* Lines 1731-1741: the row of the key for the context cid.  Column 0 and 1
\* take cid and rscore, column 2 + i takes keyEids[i] for i = 1 ..
\* nofVars - 1, and column off = 2 + (nofVars - 1) then takes keyEids[0];
\* a column that is not written holds what emplace_back left there, g.
SetRow(key, cid, rscore, g) ==
  LET nv == Len(key)
      written == [c \in 0..(nv + 1) |->
                    IF c = 0 THEN cid
                    ELSE IF c = 1 THEN rscore
                    ELSE IF c >= 3 THEN key[(c - 2) + 1]
                    ELSE g]
      last == [written EXCEPT ![nv + 1] = key[1]]
  IN [p \in 1..(nv + 2) |-> last[p - 1]]

\* Lines 1729-1742: the rows of the elements of desc from number q on.
RECURSIVE SetKeyRowsFrom(_, _, _, _, _)
SetKeyRowsFrom(key, desc, rscore, g, q) ==
  IF q > Len(desc) THEN <<>>
  ELSE <<SetRow(key, desc[q][2], rscore, g)>>
         \o SetKeyRowsFrom(key, desc, rscore, g, q + 1)

\* Lines 1726-1743: the rows of the keys in the order o of the hash map,
\* from the key number p on.
RECURSIVE SetMapRows(_, _, _, _)
SetMapRows(m, o, g, p) ==
  IF p > Len(o) THEN <<>>
  ELSE SetKeyRowsFrom(o[p], StcDescending(m[o[p]].second), m[o[p]].first,
                      g, 1)
         \o SetMapRows(m, o, g, p + 1)

\* Lines 1724-1746.
MSOutput ==
  /\ mfPc = "output"
  /\ MFFrame
  /\ \E o \in Orders(DOMAIN mfMap) :
       \E g \in Garbage :
         mfResult' = mfResult \o SetMapRows(mfMap, o, g, 1)
  /\ mfPc' = "done"
  /\ UNCHANGED <<mfWep, fMap, mfNofVars, mfKLimit, mfI, mfEntitiesInContext,
                 mfFilteredEntitiesInContext, mfCurrentCid, mfCscore, mfMap>>

MSNext ==
  \/ MFEntry
  \/ MFSameContext
  \/ MFNewContext
  \/ MFLastContext
  \/ MSOutput

InitMultVarsFilterSet ==
  /\ MSInit
  /\ CIIdle
  /\ KWIdle
  /\ AggIdle
  /\ MVIdle
  /\ OVIdle
  /\ RAIdle
  /\ FRIdle
  /\ ACIdle
  /\ AMIdle
  /\ PEIdle
  /\ CHIdle
  /\ ITIdle

SpecMultVarsFilterSet == InitMultVarsFilterSet /\ [][MSNext]_vars

\* ---- Claims on the filter-set variant

\* The rows the fMap variant gives for the aggregated map, in some order of
\* the keys.
MapVariantRows ==
  FilterMapRows(mfMap, CHOOSE o \in Orders(DOMAIN mfMap) : TRUE, 1)

\* C29: for nofVars >= 2 and k >= 1 the rows of the filter-set variant are
\* the rows of the filter-map variant called with the map e -> [e]: context,
\* score, the nofVars - 1 non-filter entities of the key and the filter
\* entity last, as many times each.
C29_SetVariantAsMapVariant ==
  (mfPc = "done" /\ mfNofVars >= 2 /\ mfKLimit >= 1) =>
    /\ Len(mfResult) = Len(MapVariantRows)
    /\ \A r \in Range(MapVariantRows) \cup Range(mfResult) :
         Count(mfResult, r) = Count(MapVariantRows, r)


\* ------------------------------------------------------------------------
\* intersectTwoPostingLists (FTSAlgorithms.cpp 198-241)
\*
\* The posting list of a word holds a context once: Init draws lists of
\* increasing cids.  Row p of the first list has the score 10 * p, row p of
\* the second the score p, so that a sum names the two rows added.  The
\* result vectors hold what an earlier call left in them.

IsIncreasing(s) == \A p \in 1..(Len(s) - 1) : s[p] < s[p + 1]

EarlierCids == {<<>>, <<9>>}

ITInit ==
  /\ cids1 \in {c \in SortedSeqs(ContextIds, MaxLen) : IsIncreasing(c)}
  /\ cids2 \in {c \in SortedSeqs(ContextIds, MaxLen) : IsIncreasing(c)}
  /\ scores1 = [p \in 1..Len(cids1) |-> 10 * p]
  /\ scores2 = [p \in 1..Len(cids2) |-> p]
  /\ resultCids \in EarlierCids
  /\ resultScores = [p \in 1..Len(resultCids) |-> 99]
  /\ itI = 0 /\ itJ = 0
  /\ itPc = "entry"

ITFrame == UNCHANGED <<ciVars, kwVars, aggVars, mvVars, ovVars, mfVars,
      raVars, frVars, acVars, amVars, peVars, chVars>>

\* Lines 204-217: return on an empty list, else clear the result vectors.
ITEntry ==
  /\ itPc = "entry"
  /\ ITFrame
  /\ IF cids1 = <<>> \/ cids2 = <<>>
       THEN /\ itPc' = "done"
            /\ UNCHANGED <<resultCids, resultScores>>
       ELSE /\ resultCids' = <<>>
            /\ resultScores' = <<>>
            /\ itPc' = "outer"
  /\ UNCHANGED <<cids1, scores1, cids2, scores2, itI, itJ>>

\* Line 219: the condition of the outer while.
ITOuter ==
  /\ itPc = "outer"
  /\ ITFrame
  /\ itPc' = IF itI < Len(cids1) /\ itJ < Len(cids2) THEN "skip1" ELSE "done"
  /\ UNCHANGED <<cids1, scores1, cids2, scores2, resultCids, resultScores,
                 itI, itJ>>

\* Lines 220-225: one round of the first inner while, or its end.
ITSkipFirst ==
  /\ itPc = "skip1"
  /\ ITFrame
  /\ IF cids1[itI + 1] < cids2[itJ + 1]
       THEN /\ itI' = itI + 1
            /\ itPc' = IF itI + 1 >= Len(cids1) THEN "done" ELSE "skip1"
       ELSE /\ itI' = itI
            /\ itPc' = "skip2"
  /\ UNCHANGED <<cids1, scores1, cids2, scores2, resultCids, resultScores,
                 itJ>>

\* Lines 226-231: one round of the second inner while, or its end.
ITSkipSecond ==
  /\ itPc = "skip2"
  /\ ITFrame
  /\ IF cids2[itJ + 1] < cids1[itI + 1]
       THEN /\ itJ' = itJ + 1
            /\ itPc' = IF itJ + 1 >= Len(cids2) THEN "done" ELSE "skip2"
       ELSE /\ itJ' = itJ
            /\ itPc' = "match"
  /\ UNCHANGED <<cids1, scores1, cids2, scores2, resultCids, resultScores,
                 itI>>

\* Lines 232-240: one round of the third inner while, or its end.
ITMatch ==
  /\ itPc = "match"
  /\ ITFrame
  /\ IF cids1[itI + 1] = cids2[itJ + 1]
       THEN /\ resultCids' = Append(resultCids, cids2[itJ + 1])
            /\ resultScores' =
                 Append(resultScores, scores1[itI + 1] + scores2[itJ + 1])
            /\ itI' = itI + 1
            /\ itJ' = itJ + 1
            /\ itPc' = IF itI + 1 >= Len(cids1) \/ itJ + 1 >= Len(cids2)
                         THEN "outer" ELSE "match"
       ELSE /\ itPc' = "outer"
            /\ UNCHANGED <<resultCids, resultScores, itI, itJ>>
  /\ UNCHANGED <<cids1, scores1, cids2, scores2>>

ITNext ==
  \/ ITEntry
  \/ ITOuter
  \/ ITSkipFirst
  \/ ITSkipSecond
  \/ ITMatch

InitIntersectTwo ==
  /\ ITInit
  /\ CIIdle
  /\ KWIdle
  /\ AggIdle
  /\ MVIdle
  /\ OVIdle
  /\ MFIdle
  /\ RAIdle
  /\ FRIdle
  /\ ACIdle
  /\ AMIdle
  /\ PEIdle
  /\ CHIdle

SpecIntersectTwo == InitIntersectTwo /\ [][ITNext]_vars

\* ---- Claims on intersectTwoPostingLists

\* The position of the context c in the increasing list s.
PositionIn(s, c) == CHOOSE p \in DOMAIN s : s[p] = c

\* The rows of the first list whose context the second list holds too.
CommonPositions == {p \in DOMAIN cids1 : cids1[p] \in Range(cids2)}

\* C30: after the call the result vectors hold the intersection of the two
\* lists of this call and nothing else: the common contexts in increasing
\* order, each with the sum of its two scores; whatever the vectors held
\* before the call is gone, also when one of the lists is empty.
C30_ResultIsIntersection ==
  itPc = "done" =>
    /\ Len(resultCids) = Cardinality(CommonPositions)
    /\ Len(resultScores) = Len(resultCids)
    /\ IsIncreasing(resultCids)
    /\ \A r \in DOMAIN resultCids :
         /\ resultCids[r] \in Range(cids1) \cap Range(cids2)
         /\ resultScores[r] =
              scores1[PositionIn(cids1, resultCids[r])]
                + scores2[PositionIn(cids2, resultCids[r])]

\* The claim for calls in which neither list is empty.
IntersectionOfNonEmptyLists ==
  (cids1 # <<>> /\ cids2 # <<>>) => C30_ResultIsIntersection

====
